---- MODULE Spec2Model ----
(***************************************************************************)
(* Model of the Snowflake SQL deployment tool (src/streamlit_app.py):      *)
(* the segmenter parse_sql, the classifier get_statement_type, the         *)
(* validator of show_deployment_interface and the orchestrator             *)
(* run_deployment.                                                         *)
(*                                                                         *)
(* Text is a sequence of one-character strings, so that trimming,          *)
(* searching, replacing and splitting are computed as Python computes      *)
(* them.  Python indexes from 0, the sequences here from 1.                *)
(***************************************************************************)
EXTENDS Integers, Sequences, FiniteSets, TLC

\* ------------------------------------------------------------------------
\* Bounds of the model
\* ------------------------------------------------------------------------

\* Longest script of the segmenter specification, in tokens of SegTokens.
MaxSegTokens == 4

\* Longest statement of the classifier specification, in tokens of ClsTokens.
MaxClsTokens == 3

\* Longest script of the deployment specification, in fragments of
\* RunFragments.
MaxRunFragments == 2

\* Longest procedure of the classifier specification after its first words,
\* in tokens of ProcTokens.
MaxProcTokens == 4

\* The most tokens a text given to the trailing-semicolon normalization is
\* made of.
MaxNormTokens == 4

\* ------------------------------------------------------------------------
\* Python string primitives
\* ------------------------------------------------------------------------

\* str.strip() / str.rstrip() with no argument remove whitespace.
IsSpace(c) == c \in {" ", "\t", "\n"}

RECURSIVE LStrip(_)
LStrip(s) ==
    IF s = <<>> THEN s
    ELSE IF IsSpace(Head(s)) THEN LStrip(Tail(s)) ELSE s

\* str.rstrip(chars): remove trailing characters that are in cs.
RECURSIVE RStripChars(_, _)
RStripChars(s, cs) ==
    IF s = <<>> THEN s
    ELSE IF s[Len(s)] \in cs THEN RStripChars(SubSeq(s, 1, Len(s) - 1), cs)
    ELSE s

RStrip(s) == RStripChars(s, {" ", "\t", "\n"})

Strip(s) == LStrip(RStrip(s))

\* sub occurs in s at index p.
OccursAt(s, p, sub) ==
    /\ p >= 1
    /\ p + Len(sub) - 1 <= Len(s)
    /\ \A k \in 1..Len(sub) : s[p + k - 1] = sub[k]

\* str.startswith / str.endswith / the `in` operator on strings.
StartsWith(s, sub) == OccursAt(s, 1, sub)

EndsWith(s, sub) == OccursAt(s, Len(s) - Len(sub) + 1, sub)

Contains(s, sub) == \E p \in 1..(Len(s) - Len(sub) + 1) : OccursAt(s, p, sub)

\* str.find(sub, from): the least index >= from where sub occurs, 0 if none.
\* The positions lo..hi are searched by halves, the left half first.
RECURSIVE FindIn(_, _, _, _)
FindIn(s, sub, lo, hi) ==
    IF lo > hi THEN 0
    ELSE IF lo = hi THEN (IF OccursAt(s, lo, sub) THEN lo ELSE 0)
    ELSE LET mid  == (lo + hi) \div 2
             left == FindIn(s, sub, lo, mid)
         IN  IF left # 0 THEN left ELSE FindIn(s, sub, mid + 1, hi)

Find(s, sub, from) == FindIn(s, sub, from, Len(s) - Len(sub) + 1)

\* str.count(sub): the number of non-overlapping occurrences, left to right.
RECURSIVE CountFrom(_, _, _)
CountFrom(s, sub, from) ==
    LET p == Find(s, sub, from)
    IN  IF p = 0 THEN 0 ELSE 1 + CountFrom(s, sub, p + Len(sub))

Count(s, sub) == CountFrom(s, sub, 1)

\* str.replace(old, new): every non-overlapping occurrence, left to right.
RECURSIVE Replace(_, _, _)
Replace(s, old, new) ==
    LET p == Find(s, old, 1)
    IN  IF p = 0 THEN s
        ELSE SubSeq(s, 1, p - 1) \o new
             \o Replace(SubSeq(s, p + Len(old), Len(s)), old, new)

\* str.split('\n'): the lines of s (one more than its newlines).
RECURSIVE SplitLines(_)
SplitLines(s) ==
    LET p == Find(s, <<"\n">>, 1)
    IN  IF p = 0 THEN <<s>>
        ELSE <<SubSeq(s, 1, p - 1)>> \o SplitLines(SubSeq(s, p + 1, Len(s)))

\* str.upper() on the ASCII letters.
LowerLetters ==
    <<"a", "b", "c", "d", "e", "f", "g", "h", "i", "j", "k", "l", "m",
      "n", "o", "p", "q", "r", "s", "t", "u", "v", "w", "x", "y", "z">>

UpperLetters ==
    <<"A", "B", "C", "D", "E", "F", "G", "H", "I", "J", "K", "L", "M",
      "N", "O", "P", "Q", "R", "S", "T", "U", "V", "W", "X", "Y", "Z">>

DigitChars == <<"0", "1", "2", "3", "4", "5", "6", "7", "8", "9">>

Range(f) == {f[k] : k \in DOMAIN f}

LowerSet == Range(LowerLetters)

UpperSet == Range(UpperLetters)

UpperOf == [c \in LowerSet |-> UpperLetters[CHOOSE k \in 1..26 : LowerLetters[k] = c]]

UpperChar(c) == IF c \in LowerSet THEN UpperOf[c] ELSE c

Upper(s) == [k \in 1..Len(s) |-> UpperChar(s[k])]

\* str(n) of a natural number.
RECURSIVE Decimal(_)
Decimal(n) ==
    IF n < 10 THEN <<DigitChars[n + 1]>>
    ELSE Decimal(n \div 10) \o <<DigitChars[(n % 10) + 1]>>

\* ------------------------------------------------------------------------
\* parse_sql, phase A: protect the dollar-quoted blocks
\* ------------------------------------------------------------------------

\* The character class [a-zA-Z0-9_] of dollar_pattern.
TagChars == LowerSet \cup UpperSet \cup Range(DigitChars) \cup {"_"}

IsTagChar(c) == c \in TagChars

\* Group 1 of dollar_pattern anchored at p, \$[a-zA-Z0-9_]*\$: the index of
\* its closing `$`, 0 when the pattern does not match at p.  No tag character
\* is a `$`, so the greedy star has one way to match.
RECURSIVE TagEndFrom(_, _)
TagEndFrom(s, q) ==
    IF q > Len(s) THEN 0
    ELSE IF s[q] = "$" THEN q
    ELSE IF IsTagChar(s[q]) THEN TagEndFrom(s, q + 1)
    ELSE 0

TagEnd(s, p) == IF p <= Len(s) /\ s[p] = "$" THEN TagEndFrom(s, p + 1) ELSE 0

\* A body written `.*?` without DOTALL: it cannot cross a line break.
LazyClose_SingleLine(s, tag, from) ==
    LET c == Find(s, tag, from)
    IN  IF c # 0 /\ Contains(SubSeq(s, from, c - 1), <<"\n">>) THEN 0 ELSE c

\* A greedy body: it ends at the last later occurrence of group 1.
LazyClose_Greedy(s, tag, from) ==
    LET cs == {c \in from..Len(s) : OccursAt(s, c, tag)}
    IN  IF cs = {} THEN 0 ELSE CHOOSE c \in cs : \A d \in cs : d <= c

\* The lazy body ([\s\S]*?) ends at the first later occurrence of group 1.
LazyClose(s, tag, from) == Find(s, tag, from)

\* dollar_pattern anchored at p: the index of the last character of the match
\* (tag, shortest body, the same tag again), 0 when there is no match at p.
MatchEnd(s, p) ==
    LET e == TagEnd(s, p)
    IN  IF e = 0 THEN 0
        ELSE LET tag == SubSeq(s, p, e)
                 c   == LazyClose(s, tag, e + 1)
             IN  IF c = 0 THEN 0 ELSE c + Len(tag) - 1

\* The placeholder replace_dollar_block builds for the block numbered idx.
PlaceholderPrefix ==
    <<"_", "_", "D", "O", "L", "L", "A", "R", "_", "B", "L", "O", "C", "K", "_">>

PlaceholderSuffix == <<"_", "_">>

Placeholder(idx) == PlaceholderPrefix \o Decimal(idx) \o PlaceholderSuffix

\* re.sub(dollar_pattern, replace_dollar_block, sql_script), at the position
\* acc.p of the search: a match is replaced by its placeholder and the search
\* goes on after it; a position with no match is copied.  acc.placeholders
\* keeps the dict in insertion order as pairs <<placeholder, original>>.
\* acc.origin records, for every character of the protected script, the
\* index in sql_script it stands for (for a placeholder's characters,
\* match.start()); the code does not read it.
ReSubStep(s, acc) ==
    LET p == acc.p
        m == MatchEnd(s, p)
    IN  IF m = 0
        THEN [acc EXCEPT !.p = p + 1,
                         !.protected = @ \o <<s[p]>>,
                         !.origin = Append(@, p)]
        ELSE LET ph == Placeholder(Len(acc.placeholders))
             IN  [p            |-> m + 1,
                  protected    |-> acc.protected \o ph,
                  placeholders |-> Append(acc.placeholders,
                                          <<ph, SubSeq(s, p, m)>>),
                  origin       |-> acc.origin \o [k \in 1..Len(ph) |-> p]]

\* At most n steps of the search from acc.p, the first half of them and
\* then the rest.
RECURSIVE ReSubSteps(_, _, _)
ReSubSteps(s, acc, n) ==
    IF acc.p > Len(s) THEN acc
    ELSE IF n <= 1 THEN ReSubStep(s, acc)
    ELSE LET half == ReSubSteps(s, acc, n \div 2)
         IN  ReSubSteps(s, half, n - (n \div 2))

\* The search from acc.p to the end of the script: every step moves p
\* forward, so it ends within len(s) steps.
ReSubFrom(s, acc) == ReSubSteps(s, acc, Len(s))

ProtectDollarBlocks(s) ==
    ReSubFrom(s, [p |-> 1, protected |-> <<>>, placeholders |-> <<>>,
                  origin |-> <<>>])

\* ------------------------------------------------------------------------
\* parse_sql, phases B and C: split on top-level semicolons, restore, filter
\* ------------------------------------------------------------------------

\* for placeholder, original in placeholders.items(): stmt = stmt.replace(..)
RECURSIVE RestoreFrom(_, _, _)
RestoreFrom(stmt, phs, k) ==
    IF k > Len(phs) THEN stmt
    ELSE RestoreFrom(Replace(stmt, phs[k][1], phs[k][2]), phs, k + 1)

RestoreDollarBlocks(stmt, phs) == RestoreFrom(stmt, phs, 1)

\* A comment test on the lines as they are, not trimmed.
NotJustComments_Untrimmed(stmt) ==
    LET lines == SplitLines(stmt)
    IN  \E k \in 1..Len(lines) :
            /\ Strip(lines[k]) # <<>>
            /\ ~StartsWith(lines[k], <<"-", "-">>)

\* any(line.strip() and not line.strip().startswith('--') for line in ...)
NotJustComments(stmt) ==
    LET lines == SplitLines(stmt)
    IN  \E k \in 1..Len(lines) :
            /\ Strip(lines[k]) # <<>>
            /\ ~StartsWith(Strip(lines[k]), <<"-", "-">>)

\* The statement terminator branch and the handling of the last statement:
\* the trimmed accumulator, restored, is appended unless empty or commentary.
EmitStatement(stmts, cur, phs) ==
    LET stmt == Strip(cur)
    IN  IF stmt = <<>> THEN stmts
        ELSE LET restored == RestoreDollarBlocks(stmt, phs)
             IN  IF NotJustComments(restored) THEN Append(stmts, restored)
                 ELSE stmts

\* The scanner's state before the first character.
ScanInit ==
    [i |-> 1, current_stmt |-> <<>>, in_string |-> FALSE,
     string_char |-> "", statements |-> <<>>]

\* A terminator test that forgets the string flag.
IsTerminator_IgnoringString(char, st) == char = ";"

\* Line 288: `elif char == ';' and not in_string`.
IsTerminator(char, st) == char = ";" /\ ~st.in_string

\* A scanner that does not look ahead for a doubled quote.
IsEscapedQuote_Never(text, st) == FALSE

\* Line 281: the next character is the quote character again.
IsEscapedQuote(text, st) ==
    st.i + 1 <= Len(text) /\ text[st.i + 1] = st.string_char

\* One iteration of `while i < len(protected_script)`.
ScanStep(text, phs, st) ==
    LET char == text[st.i]
    IN  IF char = "'" /\ ~st.in_string
        THEN [st EXCEPT !.in_string = TRUE, !.string_char = char,
                        !.current_stmt = @ \o <<char>>, !.i = @ + 1]
        ELSE IF st.in_string /\ char = st.string_char
        THEN IF IsEscapedQuote(text, st)
             THEN [st EXCEPT !.current_stmt = @ \o <<char, char>>, !.i = @ + 2]
             ELSE [st EXCEPT !.in_string = FALSE, !.string_char = "",
                             !.current_stmt = @ \o <<char>>, !.i = @ + 1]
        ELSE IF IsTerminator(char, st)
        THEN [st EXCEPT !.statements = EmitStatement(@, st.current_stmt, phs),
                        !.current_stmt = <<>>, !.i = @ + 1]
        ELSE [st EXCEPT !.current_stmt = @ \o <<char>>, !.i = @ + 1]

\* At most n iterations of `while i < len(protected_script)`, the first
\* half of them and then the rest.
RECURSIVE ScanSteps(_, _, _, _)
ScanSteps(text, phs, st, n) ==
    IF st.i > Len(text) THEN st
    ELSE IF n <= 1 THEN ScanStep(text, phs, st)
    ELSE LET half == ScanSteps(text, phs, st, n \div 2)
         IN  ScanSteps(text, phs, half, n - (n \div 2))

\* `while i < len(protected_script)`: every iteration moves i forward, so
\* the loop ends within len(protected_script) iterations.
ScanAll(text, phs, st) == ScanSteps(text, phs, st, Len(text))

\* The script returned as it is, not trimmed.
SingleStatement_Untrimmed(script) ==
    IF Strip(script) # <<>> THEN <<script>> ELSE <<>>

\* The branch of parse_sql for single_statement_mode.
SingleStatement(script) ==
    IF Strip(script) # <<>> THEN <<Strip(script)>> ELSE <<>>

\* parse_sql(sql_script, single_statement_mode)
parse_sql(script, single) ==
    IF single THEN SingleStatement(script)
    ELSE LET a  == ProtectDollarBlocks(script)
             st == ScanAll(a.protected, a.placeholders, ScanInit)
         IN  EmitStatement(st.statements, st.current_stmt, a.placeholders)

\* ------------------------------------------------------------------------
\* get_statement_type
\* ------------------------------------------------------------------------

\* The keywords and category names of get_statement_type and of the
\* validator, as text.
Kw ==
    [ CREATE |-> <<"C", "R", "E", "A", "T", "E">>,
      PROCEDURE |-> <<"P", "R", "O", "C", "E", "D", "U", "R", "E">>,
      FUNCTION |-> <<"F", "U", "N", "C", "T", "I", "O", "N">>,
      TABLE |-> <<"T", "A", "B", "L", "E">>,
      VIEW |-> <<"V", "I", "E", "W">>,
      SCHEMA |-> <<"S", "C", "H", "E", "M", "A">>,
      DATABASE |-> <<"D", "A", "T", "A", "B", "A", "S", "E">>,
      TASK |-> <<"T", "A", "S", "K">>,
      STREAM |-> <<"S", "T", "R", "E", "A", "M">>,
      STAGE |-> <<"S", "T", "A", "G", "E">>,
      PIPE |-> <<"P", "I", "P", "E">>,
      ALTER |-> <<"A", "L", "T", "E", "R">>,
      DROP |-> <<"D", "R", "O", "P">>,
      TRUNCATE |-> <<"T", "R", "U", "N", "C", "A", "T", "E">>,
      INSERT |-> <<"I", "N", "S", "E", "R", "T">>,
      UPDATE |-> <<"U", "P", "D", "A", "T", "E">>,
      DELETE |-> <<"D", "E", "L", "E", "T", "E">>,
      MERGE |-> <<"M", "E", "R", "G", "E">>,
      SELECT |-> <<"S", "E", "L", "E", "C", "T">>,
      WITH_ |-> <<"W", "I", "T", "H">>,
      CALL |-> <<"C", "A", "L", "L">>,
      EXECUTE |-> <<"E", "X", "E", "C", "U", "T", "E">>,
      BEGIN |-> <<"B", "E", "G", "I", "N">>,
      TRANSACTION |-> <<"T", "R", "A", "N", "S", "A", "C", "T", "I", "O", "N">>,
      COMMIT |-> <<"C", "O", "M", "M", "I", "T">>,
      ROLLBACK |-> <<"R", "O", "L", "L", "B", "A", "C", "K">>,
      COPY |-> <<"C", "O", "P", "Y">>,
      PUT |-> <<"P", "U", "T">>,
      GET |-> <<"G", "E", "T">>,
      GRANT |-> <<"G", "R", "A", "N", "T">>,
      REVOKE |-> <<"R", "E", "V", "O", "K", "E">>,
      USE_ |-> <<"U", "S", "E">>,
      SET |-> <<"S", "E", "T">>,
      SHOW |-> <<"S", "H", "O", "W">>,
      DESCRIBE |-> <<"D", "E", "S", "C", "R", "I", "B", "E">>,
      DESC |-> <<"D", "E", "S", "C">>,
      SELECT_CTE |-> <<"S", "E", "L", "E", "C", "T", " ", "(", "C", "T", "E", ")">>,
      CALL_PROCEDURE |-> <<"C", "A", "L", "L", " ", "P", "R", "O", "C", "E", "D", "U", "R", "E">>,
      BEGIN_BLOCK |-> <<"B", "E", "G", "I", "N", " ", "B", "L", "O", "C", "K">>,
      SQL |-> <<"S", "Q", "L">>,
      END |-> <<"E", "N", "D">>,
      RETURNS |-> <<"R", "E", "T", "U", "R", "N", "S">>,
      ACCOUNTADMIN |-> <<"A", "C", "C", "O", "U", "N", "T", "A", "D", "M", "I", "N">> ]

\* The other fixed texts of the source: delimiters, the transaction forms of
\* the validator, the pieces of the query-tag comment (line 829), the texts
\* execute_sql looks for in an error (line 87) and raises in their place
\* (line 90), and the text set_database looks for (line 116).
Txt ==
    [ DOLLARS |-> <<"$", "$">>,
      BEGIN_TRANSACTION |-> <<"B", "E", "G", "I", "N", " ", "T", "R", "A", "N", "S", "A", "C", "T", "I", "O", "N">>,
      BEGIN_WORK |-> <<"B", "E", "G", "I", "N", " ", "W", "O", "R", "K">>,
      RETURN_SPACE |-> <<"R", "E", "T", "U", "R", "N", " ">>,
      RETURN_NEWLINE |-> <<"R", "E", "T", "U", "R", "N", "\n">>,
      TagOpen |-> <<"/", "*", " ", "Q", "U", "E", "R", "Y", "_", "T", "A", "G", ":", " ">>,
      TagUser |-> <<" ", "|", " ", "U", "s", "e", "r", ":", " ">>,
      TagRole |-> <<" ", "|", " ", "R", "o", "l", "e", ":", " ">>,
      TagTime |-> <<" ", "|", " ", "T", "i", "m", "e", "s", "t", "a", "m", "p", ":", " ">>,
      TagClose |-> <<" ", "*", "/", "\n">>,
      Ellipsis |-> <<".", ".", ".">>,
      ParseError |-> <<"p", "a", "r", "s", "e", " ", "e", "r", "r", "o", "r">>,
      Unexpected |-> <<"u", "n", "e", "x", "p", "e", "c", "t", "e", "d">>,
      HintPrefix |-> <<"P", "r", "o", "c", "e", "d", "u", "r", "e", " ", "c", "r", "e", "a", "t", "i", "o", "n", " ", "f", "a", "i", "l", "e", "d", ":", " ">>,
      HintSuffix |-> <<"\n", "\n", "N", "o", "t", "e", ":", " ", "T", "h", "i", "s", " ", "m", "a", "y", " ", "b", "e", " ", "a", " ", "S", "t", "r", "e", "a", "m", "l", "i", "t", "-", "i", "n", "-", "S", "n", "o", "w", "f", "l", "a", "k", "e", " ", "l", "i", "m", "i", "t", "a", "t", "i", "o", "n", " ", "w", "i", "t", "h", " ", "$", "$", " ", "d", "e", "l", "i", "m", "i", "t", "e", "r", "s", ".", " ", "T", "r", "y", " ", "d", "e", "p", "l", "o", "y", "i", "n", "g", " ", "t", "h", "i", "s", " ", "p", "r", "o", "c", "e", "d", "u", "r", "e", " ", "d", "i", "r", "e", "c", "t", "l", "y", " ", "v", "i", "a", " ", "S", "n", "o", "w", "f", "l", "a", "k", "e", " ", "W", "o", "r", "k", "s", "h", "e", "e", "t", "s", ".">>,
      UnsupportedStatement |-> <<"U", "n", "s", "u", "p", "p", "o", "r", "t", "e", "d", " ", "s", "t", "a", "t", "e", "m", "e", "n", "t">> ]

\* The table of CREATE sub-categories, in the order the source tests them.
CreateKinds ==
    <<Kw.PROCEDURE, Kw.FUNCTION, Kw.TABLE, Kw.VIEW, Kw.SCHEMA, Kw.DATABASE,
      Kw.TASK, Kw.STREAM, Kw.STAGE, Kw.PIPE>>

\* The branch `if stmt_upper.startswith('CREATE')`: the first kind, in table
\* order, that occurs anywhere in the text; plain CREATE when none does.
RECURSIVE CreateTypeFrom(_, _)
CreateTypeFrom(stmt_upper, k) ==
    IF k > Len(CreateKinds) THEN Kw.CREATE
    ELSE IF Contains(stmt_upper, CreateKinds[k])
         THEN Kw.CREATE \o <<" ">> \o CreateKinds[k]
         ELSE CreateTypeFrom(stmt_upper, k + 1)

\* The branch deciding by the kind that occurs first in the text instead of
\* the first kind of the table that occurs.
CreateType_ByPosition(stmt_upper) ==
    LET at(k)   == {p \in 1..Len(stmt_upper) : OccursAt(stmt_upper, p, CreateKinds[k])}
        present == {k \in 1..Len(CreateKinds) : at(k) # {}}
        first(k) == CHOOSE p \in at(k) : \A q \in at(k) : p <= q
        kind    == CHOOSE k \in present : \A j \in present : first(k) <= first(j)
    IN  IF present = {} THEN Kw.CREATE
        ELSE Kw.CREATE \o <<" ">> \o CreateKinds[kind]

CreateType(stmt_upper) == CreateTypeFrom(stmt_upper, 1)

\* The elif chain after CREATE: <<prefix tested, category returned>>, in
\* source order.  BEGIN is tested between EXECUTE and COMMIT.
PrefixTable ==
    <<<<Kw.ALTER, Kw.ALTER>>, <<Kw.DROP, Kw.DROP>>, <<Kw.TRUNCATE, Kw.TRUNCATE>>,
      <<Kw.INSERT, Kw.INSERT>>, <<Kw.UPDATE, Kw.UPDATE>>, <<Kw.DELETE, Kw.DELETE>>,
      <<Kw.MERGE, Kw.MERGE>>, <<Kw.SELECT, Kw.SELECT>>, <<Kw.WITH_, Kw.SELECT_CTE>>,
      <<Kw.CALL, Kw.CALL_PROCEDURE>>, <<Kw.EXECUTE, Kw.EXECUTE>>,
      <<Kw.BEGIN, Kw.BEGIN>>,
      <<Kw.COMMIT, Kw.COMMIT>>, <<Kw.ROLLBACK, Kw.ROLLBACK>>,
      <<Kw.COPY, Kw.COPY>>, <<Kw.PUT, Kw.PUT>>, <<Kw.GET, Kw.GET>>,
      <<Kw.GRANT, Kw.GRANT>>, <<Kw.REVOKE, Kw.REVOKE>>,
      <<Kw.USE_, Kw.USE_>>, <<Kw.SET, Kw.SET>>, <<Kw.SHOW, Kw.SHOW>>,
      <<Kw.DESCRIBE, Kw.DESCRIBE>>, <<Kw.DESC, Kw.DESCRIBE>>>>

\* The branch `elif stmt_upper.startswith('BEGIN')`.
BeginType(stmt_upper) ==
    IF Contains(stmt_upper, Kw.TRANSACTION)
    THEN Kw.BEGIN \o <<" ">> \o Kw.TRANSACTION
    ELSE Kw.BEGIN_BLOCK

\* The chain falling off its end without the final `return 'SQL'`.
PrefixTypeFrom_NoDefault(stmt_upper, k) ==
    LET hits == {j \in k..Len(PrefixTable) :
                     StartsWith(stmt_upper, PrefixTable[j][1])}
        first == CHOOSE j \in hits : \A h \in hits : j <= h
    IN  IF hits = {} THEN <<"N", "o", "n", "e">>
        ELSE IF PrefixTable[first][1] = Kw.BEGIN THEN BeginType(stmt_upper)
        ELSE PrefixTable[first][2]

\* The chain from its k-th test on: the first prefix that matches decides,
\* and `return 'SQL'` is reached when none does.
PrefixTypeFrom(stmt_upper, k) ==
    LET hits == {j \in k..Len(PrefixTable) :
                     StartsWith(stmt_upper, PrefixTable[j][1])}
        first == CHOOSE j \in hits : \A h \in hits : j <= h
    IN  IF hits = {} THEN Kw.SQL
        ELSE IF PrefixTable[first][1] = Kw.BEGIN THEN BeginType(stmt_upper)
        ELSE PrefixTable[first][2]

\* get_statement_type(stmt)
\* The chain testing the statement's first word as a whole instead of a
\* prefix of its text.
get_statement_type_ByFirstWord(stmt) ==
    LET stmt_upper == Upper(Strip(stmt))
        wordChars  == UpperSet \cup Range(DigitChars) \cup {"_"}
        ends  == {k \in 0..Len(stmt_upper) :
                     /\ \A j \in 1..k : stmt_upper[j] \in wordChars
                     /\ k < Len(stmt_upper) => stmt_upper[k + 1] \notin wordChars}
        word  == SubSeq(stmt_upper, 1, CHOOSE k \in ends : TRUE)
        rows  == {j \in 1..Len(PrefixTable) : PrefixTable[j][1] = word}
        row   == CHOOSE j \in rows : TRUE
    IN  IF word = Kw.CREATE THEN CreateType(stmt_upper)
        ELSE IF rows = {} THEN Kw.SQL
        ELSE IF word = Kw.BEGIN THEN BeginType(stmt_upper)
        ELSE PrefixTable[row][2]

\* The classifier reading past a first line that is a `--` comment.
get_statement_type_SkippingComments(stmt) ==
    LET text       == Strip(stmt)
        line_end   == Find(text, <<"\n">>, 1)
        body       == IF StartsWith(text, <<"-", "-">>) /\ line_end > 0
                      THEN SubSeq(text, line_end + 1, Len(text))
                      ELSE text
        stmt_upper == Upper(Strip(body))
    IN  IF StartsWith(stmt_upper, Kw.CREATE) THEN CreateType(stmt_upper)
        ELSE PrefixTypeFrom(stmt_upper, 1)

get_statement_type(stmt) ==
    LET stmt_upper == Upper(Strip(stmt))
    IN  IF StartsWith(stmt_upper, Kw.CREATE) THEN CreateType(stmt_upper)
        ELSE PrefixTypeFrom(stmt_upper, 1)

\* ------------------------------------------------------------------------
\* The validator of show_deployment_interface (lines 625-677)
\* ------------------------------------------------------------------------

\* \w of the regular expressions, and \b, the boundary between a \w
\* character and a character that is not one (or the end of the text).
IsWordChar(c) == IsTagChar(c)

WordAt(s, p) == p >= 1 /\ p <= Len(s) /\ IsWordChar(s[p])

BoundaryAt(s, p) == WordAt(s, p - 1) # WordAt(s, p)

\* The count of the occurrences of the word, whole word or not.
CountWord_AnyOccurrence(s, w) ==
    Cardinality({p \in 1..Len(s) : OccursAt(s, p, w)})

\* len(re.findall(r'\bWORD\b', s)) for a word of \w characters.
CountWord(s, w) ==
    Cardinality({p \in 1..Len(s) :
        /\ OccursAt(s, p, w)
        /\ BoundaryAt(s, p)
        /\ BoundaryAt(s, p + Len(w))})

\* The end of \s+ starting at p: the index after the run of whitespace.
RECURSIVE SkipSpace(_, _)
SkipSpace(s, p) ==
    IF p <= Len(s) /\ IsSpace(s[p]) THEN SkipSpace(s, p + 1) ELSE p

\* len(re.findall(r'\bBEGIN\s+TRANSACTION\b', s))
CountBeginTransaction(s) ==
    Cardinality({p \in 1..Len(s) :
        /\ OccursAt(s, p, Kw.BEGIN)
        /\ BoundaryAt(s, p)
        /\ SkipSpace(s, p + Len(Kw.BEGIN)) > p + Len(Kw.BEGIN)
        /\ OccursAt(s, SkipSpace(s, p + Len(Kw.BEGIN)), Kw.TRANSACTION)
        /\ BoundaryAt(s, SkipSpace(s, p + Len(Kw.BEGIN)) + Len(Kw.TRANSACTION))})

IsProcedureType(type) ==
    type \in {Kw.CREATE \o <<" ">> \o Kw.PROCEDURE, Kw.CREATE \o <<" ">> \o Kw.FUNCTION}

\* str.rfind(sub): the last index where sub occurs, 0 if none.
RFind(s, sub) ==
    LET hits == {p \in 1..(Len(s) - Len(sub) + 1) : OccursAt(s, p, sub)}
    IN  IF hits = {} THEN 0 ELSE CHOOSE p \in hits : \A q \in hits : p >= q

\* An entry of the errors or warnings list: what the message says.
Issue(kind, type, n, m) == [kind |-> kind, type |-> type, n |-> n, m |-> m]

\* The check without the branch for a single delimiter.
DelimiterErrors_NoSingleCase(s, type) ==
    LET dollar_count == Count(s, Txt.DOLLARS)
    IN  IF dollar_count = 0
        THEN <<Issue("missing delimiters", type, 0, 0)>>
        ELSE IF dollar_count % 2 # 0
        THEN <<Issue("odd number of delimiters", type, dollar_count, 0)>>
        ELSE <<>>

\* Lines 636-642: the check of the `$$` delimiters.
DelimiterErrors(s, type) ==
    LET dollar_count == Count(s, Txt.DOLLARS)
    IN  IF dollar_count = 0
        THEN <<Issue("missing delimiters", type, 0, 0)>>
        ELSE IF dollar_count = 1
        THEN <<Issue("missing closing delimiter", type, 1, 0)>>
        ELSE IF dollar_count % 2 # 0
        THEN <<Issue("odd number of delimiters", type, dollar_count, 0)>>
        ELSE <<>>

\* The balance that takes every BEGIN for the start of a block.
BalanceErrors_CountingTransactions(s, type) ==
    LET stmt_upper        == Upper(s)
        begin_count       == CountWord(stmt_upper, Kw.BEGIN)
        end_count         == CountWord(stmt_upper, Kw.END)
        procedural_begins == begin_count
    IN  IF procedural_begins > end_count
        THEN <<Issue("missing END", type, procedural_begins, end_count)>>
        ELSE <<>>

\* Lines 644-652: the BEGIN/END balance.
BalanceErrors(s, type) ==
    LET stmt_upper        == Upper(s)
        begin_count       == CountWord(stmt_upper, Kw.BEGIN)
        end_count         == CountWord(stmt_upper, Kw.END)
        procedural_begins == begin_count - CountBeginTransaction(stmt_upper)
    IN  IF procedural_begins > end_count
        THEN <<Issue("missing END", type, procedural_begins, end_count)>>
        ELSE <<>>

\* Lines 654-657: BEGIN TRANSACTION without COMMIT or ROLLBACK.
TransactionErrors(s, type) ==
    LET stmt_upper == Upper(s)
    IN  IF /\ \/ Contains(stmt_upper, Txt.BEGIN_TRANSACTION)
              \/ Contains(stmt_upper, Txt.BEGIN_WORK)
           /\ ~Contains(stmt_upper, Kw.COMMIT)
           /\ ~Contains(stmt_upper, Kw.ROLLBACK)
        THEN <<Issue("transaction will not complete", type, 0, 0)>>
        ELSE <<>>

\* Lines 634-657: the errors of one statement.
StatementErrors(s) ==
    LET type == get_statement_type(s)
    IN  IF IsProcedureType(type)
        THEN DelimiterErrors(s, type) \o BalanceErrors(s, type)
             \o TransactionErrors(s, type)
        ELSE <<>>

\* Lines 659-669: the warnings of a procedure or function.
ProcedureWarnings(s, type) ==
    LET stmt_upper   == Upper(s)
        dollar_count == Count(s, Txt.DOLLARS)
        after_dollar == Strip(SubSeq(s, RFind(s, Txt.DOLLARS) + 2, Len(s)))
    IN  (IF /\ Contains(stmt_upper, Kw.RETURNS)
            /\ ~Contains(stmt_upper, Txt.RETURN_SPACE)
            /\ ~Contains(stmt_upper, Txt.RETURN_NEWLINE)
         THEN <<Issue("no RETURN", type, 0, 0)>> ELSE <<>>)
        \o
        (IF dollar_count >= 2 /\ after_dollar # <<>> /\ after_dollar # <<";">>
         THEN <<Issue("content after closing delimiter", type, 0, 0)>>
         ELSE <<>>)

\* Lines 671-677: the warnings of any statement.
GeneralWarnings(s, type) ==
    LET stmt_upper == Upper(s)
    IN  (IF type \in {Kw.DROP, Kw.TRUNCATE, Kw.DELETE}
         THEN <<Issue("data may be deleted", type, 0, 0)>> ELSE <<>>)
        \o
        (IF Contains(stmt_upper, Kw.GRANT) /\ Contains(stmt_upper, Kw.ACCOUNTADMIN)
         THEN <<Issue("GRANT to ACCOUNTADMIN", Kw.GRANT, 0, 0)>> ELSE <<>>)
        \o
        (IF type = Kw.BEGIN \o <<" ">> \o Kw.TRANSACTION
         THEN <<Issue("transaction detected", type, 0, 0)>> ELSE <<>>)

StatementWarnings(s) ==
    LET type == get_statement_type(s)
    IN  (IF IsProcedureType(type) THEN ProcedureWarnings(s, type) ELSE <<>>)
        \o GeneralWarnings(s, type)

\* Lines 625-677: `for stmt in statements`, the two lists in order.
RECURSIVE ValidateErrors(_)
ValidateErrors(stmts) ==
    IF stmts = <<>> THEN <<>>
    ELSE StatementErrors(Head(stmts)) \o ValidateErrors(Tail(stmts))

RECURSIVE ValidateWarnings(_)
ValidateWarnings(stmts) ==
    IF stmts = <<>> THEN <<>>
    ELSE StatementWarnings(Head(stmts)) \o ValidateWarnings(Tail(stmts))

\* ------------------------------------------------------------------------
\* State
\* ------------------------------------------------------------------------

VARIABLES
    pc,                     \* position in the handler being run
    sql_script,             \* the text area's content
    single_statement_mode,  \* the Single Statement Mode checkbox
    protected_script,       \* parse_sql: the script after re.sub
    placeholders,           \* parse_sql: <<placeholder, original>> pairs
    origin,                 \* parse_sql: index in sql_script of each character
    scan,                   \* parse_sql: i, current_stmt, in_string, ...
    statements,             \* the list parse_sql returns
    stmt,                   \* the statement being classified or dispatched
    stmt_type,              \* its category
    errors,                 \* the validator's errors
    warnings,               \* the validator's warnings
    IN_SNOWFLAKE,           \* whether the Snowpark import succeeded
    schema,                 \* st.session_state.selected_schema
    log_entries,            \* run_deployment: the log
    failed,                 \* run_deployment: the failure flag
    progress,               \* the values given to progress.progress, in order
    query_tag_method,       \* run_deployment: the method adopted
    context_calls,          \* the context switches asked of the engine
    tag_attempts,           \* the query-tag methods attempted, in order
    idx,                    \* run_deployment: i of enumerate(statements, 1)
    sent,                   \* the calls made to the engine's primitives
    deployment_status       \* st.session_state.deployment_status

vars ==
    <<pc, sql_script, single_statement_mode, protected_script, placeholders,
      origin, scan, statements, stmt, stmt_type, errors, warnings,
      IN_SNOWFLAKE, schema, log_entries, failed, progress, query_tag_method,
      context_calls, tag_attempts, idx, sent, deployment_status>>

parseVars == <<protected_script, placeholders, origin, scan>>

runVars ==
    <<IN_SNOWFLAKE, schema, log_entries, failed, progress, query_tag_method,
      context_calls, tag_attempts, idx, sent, deployment_status>>

\* None of Python.
None == "None"

\* ------------------------------------------------------------------------
\* Inputs
\* ------------------------------------------------------------------------

\* The concatenation of a sequence of texts.
RECURSIVE Flatten(_)
Flatten(ts) == IF ts = <<>> THEN <<>> ELSE Head(ts) \o Flatten(Tail(ts))

\* Every text made of at most n tokens of T.
TextsUpTo(T, n) == {Flatten(ts) : ts \in UNION {[1..k -> T] : k \in 0..n}}

\* The tokens the segmenter's scripts are made of.
SegTokens ==
    {<<"$", "$">>, <<"$", "a", "$">>, <<";">>, <<"'">>, <<"a">>, <<"\n">>,
     <<"-", "-">>, <<" ">>}

Ex_Procedure ==
    <<"C", "R", "E", "A", "T", "E", " ", "P", "R", "O", "C", "E", "D", "U", "R", "E", " ", "p", "(", ")", " ", "A", "S", " ", "$", "$", " ", "a", ";", " ", "b", ";", " ", "$", "$", ";">>

Ex_StringSemicolon ==
    <<"S", "E", "L", "E", "C", "T", " ", "'", ";", "'", " ", ";">>

Ex_DoubledQuote ==
    <<"S", "E", "L", "E", "C", "T", " ", "'", "i", "t", "'", "'", "s", "'", " ", ";">>

\* A script with the text of the first placeholder written in it.
Ex_PlaceholderText ==
    <<"$", "$", ";", "$", "$", ";", "x", "_", "_", "D", "O", "L", "L", "A", "R", "_", "B", "L", "O", "C", "K", "_", "0", "_", "_">>

\* A block tagged `$a$` with a `$$` and a semicolon inside it.
Ex_NestedTag ==
    <<"$", "a", "$", " ", "x", ";", "$", "$", " ", "y", " ", "$", "a", "$", ";", "z">>

\* The scripts of the spec's examples.
SegExamples ==
    {Ex_Procedure, Ex_StringSemicolon, Ex_DoubledQuote, Ex_PlaceholderText,
     Ex_NestedTag}

SegScripts == TextsUpTo(SegTokens, MaxSegTokens) \cup SegExamples

\* ------------------------------------------------------------------------
\* The segmenter, step by step: parse_sql(sql_script, single_statement_mode)
\* ------------------------------------------------------------------------

InitSeg ==
    /\ pc = "parse"
    /\ sql_script \in SegScripts
    /\ single_statement_mode \in BOOLEAN
    /\ protected_script = <<>>
    /\ placeholders = <<>>
    /\ origin = <<>>
    /\ scan = ScanInit
    /\ statements = <<>>
    /\ stmt = <<>>
    /\ stmt_type = None
    /\ errors = <<>>
    /\ warnings = <<>>
    /\ IN_SNOWFLAKE = FALSE
    /\ schema = None
    /\ log_entries = <<>>
    /\ failed = FALSE
    /\ progress = <<>>
    /\ query_tag_method = None
    /\ context_calls = <<>>
    /\ tag_attempts = <<>>
    /\ idx = 0
    /\ sent = <<>>
    /\ deployment_status = None

\* Lines 241-246: single statement mode returns the trimmed script.
SegSingle ==
    /\ pc = "parse"
    /\ single_statement_mode
    /\ statements' = SingleStatement(sql_script)
    /\ pc' = "parsed"
    /\ UNCHANGED <<sql_script, single_statement_mode, parseVars, stmt,
                   stmt_type, errors, warnings, runVars>>

\* Lines 248-269: phase A, then the scanner's initial state.
SegProtect ==
    /\ pc = "parse"
    /\ ~single_statement_mode
    /\ LET a == ProtectDollarBlocks(sql_script)
       IN  /\ protected_script' = a.protected
           /\ placeholders' = a.placeholders
           /\ origin' = a.origin
    /\ scan' = ScanInit
    /\ pc' = "scan"
    /\ UNCHANGED <<sql_script, single_statement_mode, statements, stmt,
                   stmt_type, errors, warnings, runVars>>

\* Lines 271-301: one iteration of the scanning loop.
SegScan ==
    /\ pc = "scan"
    /\ scan.i <= Len(protected_script)
    /\ scan' = ScanStep(protected_script, placeholders, scan)
    /\ UNCHANGED <<pc, sql_script, single_statement_mode, protected_script,
                   placeholders, origin, statements, stmt, stmt_type, errors,
                   warnings, runVars>>

\* Lines 303-312: the last statement, and the return.
SegFinish ==
    /\ pc = "scan"
    /\ scan.i > Len(protected_script)
    /\ statements' = EmitStatement(scan.statements, scan.current_stmt,
                                   placeholders)
    /\ pc' = "parsed"
    /\ UNCHANGED <<sql_script, single_statement_mode, parseVars, stmt,
                   stmt_type, errors, warnings, runVars>>

NextSeg == SegSingle \/ SegProtect \/ SegScan \/ SegFinish

SpecSeg == InitSeg /\ [][NextSeg]_vars

\* ------------------------------------------------------------------------
\* The classifier and the validator applied to one statement
\* ------------------------------------------------------------------------

\* The tokens the classifier's statements are made of.
ClsTokens ==
    {Kw.CREATE, Kw.PROCEDURE, Kw.TABLE, Kw.BEGIN, Kw.TRANSACTION, Kw.END, Kw.DESC,
     Kw.WITH_, Txt.DOLLARS, <<" ">>, <<"x">>, <<"s", "e", "t">>}

\* The first words of a procedure.
ProcHeader ==
    Kw.CREATE \o <<" ">> \o Kw.PROCEDURE \o <<" ", "p", " ", "A", "S", " ">>

\* The tokens the rest of a procedure is made of.
ProcTokens ==
    {Txt.DOLLARS, <<"$">>, Kw.BEGIN \o <<" ">>, Kw.TRANSACTION \o <<";">>,
     <<"W", "O", "R", "K", ";">>, Kw.END \o <<";">>, Kw.COMMIT \o <<";">>}

ProcStatements ==
    {ProcHeader \o b : b \in TextsUpTo(ProcTokens, MaxProcTokens)}

\* The statements of the spec's examples of the validator, and procedures
\* longer than MaxProcTokens.
Ex_NoDelimiters ==
    <<"C", "R", "E", "A", "T", "E", " ", "P", "R", "O", "C", "E", "D", "U", "R", "E", " ", "x", "(", ")", " ", "A", "S", " ", "b", "o", "d", "y">>

Ex_ValidProcedure ==
    <<"C", "R", "E", "A", "T", "E", " ", "P", "R", "O", "C", "E", "D", "U", "R", "E", " ", "x", "(", ")", " ", "A", "S", " ", "$", "$", " ", "B", "E", "G", "I", "N", " ", "B", "E", "G", "I", "N", " ", "T", "R", "A", "N", "S", "A", "C", "T", "I", "O", "N", ";", " ", "C", "O", "M", "M", "I", "T", ";", " ", "E", "N", "D", ";", " ", "$", "$", ";">>

Ex_FunctionThreePairs ==
    <<"c", "r", "e", "a", "t", "e", " ", "f", "u", "n", "c", "t", "i", "o", "n", " ", "f", " ", "a", "s", " ", "$", "$", "$", "$", "$", "$">>

Ex_BeginParameter ==
    <<"C", "R", "E", "A", "T", "E", " ", "P", "R", "O", "C", "E", "D", "U", "R", "E", " ", "p", "(", "b", "e", "g", "i", "n", " ", "I", "N", "T", ")", " ", "A", "S", " ", "$", "$", " ", "B", "E", "G", "I", "N", " ", "x", ";", " ", "E", "N", "D", ";", " ", "$", "$">>

Ex_BeginWork ==
    <<"C", "R", "E", "A", "T", "E", " ", "P", "R", "O", "C", "E", "D", "U", "R", "E", " ", "p", "(", ")", " ", "A", "S", " ", "$", "$", " ", "B", "E", "G", "I", "N", " ", "W", "O", "R", "K", ";", " ", "x", ";", " ", "E", "N", "D", ";", " ", "$", "$">>

ClsExamples ==
    {Ex_NoDelimiters, Ex_ValidProcedure, Ex_FunctionThreePairs,
     Ex_BeginParameter, Ex_BeginWork}

\* CREATE statements naming one kind of object, or two in either order.
CreateStatements ==
    {Kw.CREATE \o <<" ">> \o CreateKinds[a] : a \in 1..Len(CreateKinds)}
    \cup {Kw.CREATE \o <<" ">> \o CreateKinds[a] \o <<" ">> \o CreateKinds[b] :
              a, b \in 1..Len(CreateKinds)}

ClsStatements ==
    TextsUpTo(ClsTokens, MaxClsTokens) \cup ProcStatements \cup ClsExamples
        \cup CreateStatements

InitCls ==
    /\ pc = "statement"
    /\ stmt \in ClsStatements
    /\ stmt_type = None
    /\ sql_script = <<>>
    /\ single_statement_mode = FALSE
    /\ protected_script = <<>>
    /\ placeholders = <<>>
    /\ origin = <<>>
    /\ scan = ScanInit
    /\ statements = <<>>
    /\ errors = <<>>
    /\ warnings = <<>>
    /\ IN_SNOWFLAKE = FALSE
    /\ schema = None
    /\ log_entries = <<>>
    /\ failed = FALSE
    /\ progress = <<>>
    /\ query_tag_method = None
    /\ context_calls = <<>>
    /\ tag_attempts = <<>>
    /\ idx = 0
    /\ sent = <<>>
    /\ deployment_status = None

\* Line 629: stmt_type = get_statement_type(stmt).
Classify ==
    /\ pc = "statement"
    /\ stmt_type' = get_statement_type(stmt)
    /\ pc' = "classified"
    /\ UNCHANGED <<sql_script, single_statement_mode, parseVars, statements,
                   stmt, errors, warnings, runVars>>

\* Lines 630-677: the validation rules applied to the statement.
ValidateStatement ==
    /\ pc = "classified"
    /\ errors' = StatementErrors(stmt)
    /\ warnings' = StatementWarnings(stmt)
    /\ pc' = "validated"
    /\ UNCHANGED <<sql_script, single_statement_mode, parseVars, statements,
                   stmt, stmt_type, runVars>>

NextCls == Classify \/ ValidateStatement

SpecCls == InitCls /\ [][NextCls]_vars

\* ------------------------------------------------------------------------
\* run_deployment: the values it computes
\* ------------------------------------------------------------------------

\* The query tag the operator entered.
QueryTag ==
    <<"J", "I", "R", "A", "-", "1">>

\* get_current_user() and get_current_role(): what the engine answered.
CurrentUser ==
    <<"a", "l", "i", "c", "e">>

CurrentRole ==
    <<"d", "e", "v">>

\* str(datetime.now()), one sample value.
Timestamp ==
    <<"2", "0", "2", "6", "-", "0", "1", "-", "0", "1", " ", "0", "0", ":", "0", "0", ":", "0", "0">>

\* Errors the engine may answer a statement with.
E_SyntaxError ==
    <<"S", "Q", "L", " ", "c", "o", "m", "p", "i", "l", "a", "t", "i", "o", "n", " ", "e", "r", "r", "o", "r", ":", " ", "s", "y", "n", "t", "a", "x", " ", "e", "r", "r", "o", "r", " ", "l", "i", "n", "e", " ", "1", " ", "a", "t", " ", "p", "o", "s", "i", "t", "i", "o", "n", " ", "0", " ", "u", "n", "e", "x", "p", "e", "c", "t", "e", "d", " ", "'", "x", "'", ".">>

E_AccessError ==
    <<"I", "n", "s", "u", "f", "f", "i", "c", "i", "e", "n", "t", " ", "p", "r", "i", "v", "i", "l", "e", "g", "e", "s", " ", "t", "o", " ", "o", "p", "e", "r", "a", "t", "e", " ", "o", "n", " ", "t", "a", "b", "l", "e", " ", "'", "t", "'">>

\* Errors the engine may answer a context switch with.
E_Unsupported ==
    <<"U", "n", "s", "u", "p", "p", "o", "r", "t", "e", "d", " ", "s", "t", "a", "t", "e", "m", "e", "n", "t", " ", "t", "y", "p", "e", " ", "'", "U", "S", "E", "'", ".">>

E_NoDatabase ==
    <<"D", "a", "t", "a", "b", "a", "s", "e", " ", "'", "D", "'", " ", "d", "o", "e", "s", " ", "n", "o", "t", " ", "e", "x", "i", "s", "t", " ", "o", "r", " ", "n", "o", "t", " ", "a", "u", "t", "h", "o", "r", "i", "z", "e", "d", ".">>

\* The same answer about a database whose name has USE in it.
E_NoWarehouse ==
    <<"D", "a", "t", "a", "b", "a", "s", "e", " ", "'", "W", "A", "R", "E", "H", "O", "U", "S", "E", "'", " ", "d", "o", "e", "s", " ", "n", "o", "t", " ", "e", "x", "i", "s", "t", " ", "o", "r", " ", "n", "o", "t", " ", "a", "u", "t", "h", "o", "r", "i", "z", "e", "d", ".">>

LowerOf == [c \in UpperSet |-> LowerLetters[CHOOSE k \in 1..26 : UpperLetters[k] = c]]

LowerChar(c) == IF c \in UpperSet THEN LowerOf[c] ELSE c

\* str.lower() on the ASCII letters.
Lower(s) == [k \in 1..Len(s) |-> LowerChar(s[k])]

\* The length stmt_preview keeps (line 815).
PreviewLen == 100

\* Lines 815-817: the first 100 characters, newlines turned into spaces,
\* and an ellipsis when the statement is longer.
StmtPreview_KeepingNewlines(s) ==
    SubSeq(s, 1, IF Len(s) < PreviewLen THEN Len(s) ELSE PreviewLen)
    \o (IF Len(s) > PreviewLen THEN Txt.Ellipsis ELSE <<>>)

StmtPreview(s) ==
    LET head == SubSeq(s, 1, IF Len(s) < PreviewLen THEN Len(s) ELSE PreviewLen)
    IN  Replace(head, <<"\n">>, <<" ">>)
        \o (IF Len(s) > PreviewLen THEN Txt.Ellipsis ELSE <<>>)

\* Line 829: the comment block put before a statement.
CommentPrefix ==
    Txt.TagOpen \o QueryTag \o Txt.TagUser \o CurrentUser \o Txt.TagRole
    \o CurrentRole \o Txt.TagTime \o Timestamp \o Txt.TagClose

\* Lines 822-831: the statement as rewritten for the method adopted.
StmtToExecute_PrefixingProcedures(s, type, method) ==
    IF method = "SQL comment prefix" THEN CommentPrefix \o s ELSE s

StmtToExecute(s, type, method) ==
    IF method = "SQL comment prefix" /\ ~IsProcedureType(type)
    THEN CommentPrefix \o s
    ELSE s

\* Lines 836-840: the category starts with one of ddl_types.
DdlTypes ==
    <<Kw.CREATE, Kw.ALTER, Kw.DROP, Kw.TRUNCATE, Kw.GRANT, Kw.REVOKE, Kw.BEGIN,
      Kw.COMMIT, Kw.ROLLBACK, Kw.USE_, Kw.SET>>

IsDdl_ExactMatch(type) == \E k \in 1..Len(DdlTypes) : type = DdlTypes[k]

IsDdl(type) == \E k \in 1..Len(DdlTypes) : StartsWith(type, DdlTypes[k])

\* Lines 844-848: the trailing semicolon after a closing `$$` is removed.
FinalStmt_AlwaysStripping(stmt_to_execute) ==
    RStripChars(stmt_to_execute, {";", " ", "\t", "\n"})

FinalStmt(stmt_to_execute) ==
    LET final_stmt == RStrip(stmt_to_execute)
        stripped   == RStripChars(final_stmt, {";", " ", "\t", "\n"})
    IN  IF /\ EndsWith(final_stmt, <<";">>)
           /\ Contains(final_stmt, Txt.DOLLARS)
           /\ EndsWith(stripped, Txt.DOLLARS)
        THEN stripped
        ELSE final_stmt

\* Line 811: pct = 20 + int((i / len(statements)) * 70).  The quotient and
\* the product are IEEE doubles: the product falls just under the integer
\* 70*i/n only when i/n = 47/70, and is truncated to 46 there.
Pct(i, n) == 20 + (IF 70 * i = 47 * n THEN 46 ELSE (70 * i) \div n)

\* The call made to the engine for one statement: the primitive chosen
\* (lines 850-857) and the text given to session.sql or conn.query
\* (lines 52-102; execute_sql trims a procedure's text in Snowflake).
EngineCall(final_stmt, type, in_snowflake) ==
    IF IsDdl(type)
    THEN [primitive    |-> "execute_sql",
          is_procedure |-> IsProcedureType(type),
          sql          |-> IF in_snowflake /\ IsProcedureType(type)
                           THEN Strip(final_stmt) ELSE final_stmt]
    ELSE [primitive |-> "run_query", is_procedure |-> FALSE,
          sql |-> final_stmt]

\* Lines 84-91: the error execute_sql raises for an engine error e.
ExecuteSqlError(e, type, in_snowflake) ==
    IF /\ IsDdl(type) /\ IsProcedureType(type) /\ in_snowflake
       /\ \/ Contains(Lower(e), Txt.ParseError)
          \/ Contains(Lower(e), Txt.Unexpected)
    THEN Txt.HintPrefix \o e \o Txt.HintSuffix
    ELSE e

\* What is asked of the engine for one dispatch, request being the call with
\* the engine's answer to it: execute_sql and run_query ask once, whatever
\* the answer (lines 56, 59, 82, 94 and 101), and an error is raised again
\* (lines 90-91), not answered by a second call.
EngineRequests_Retrying(request) ==
    IF /\ request.call.is_procedure
       /\ \/ Contains(Lower(request.answer), Txt.ParseError)
          \/ Contains(Lower(request.answer), Txt.Unexpected)
    THEN <<request, request>>
    ELSE <<request>>

EngineRequests(request) == <<request>>

\* An entry of log_entries: what it reports, the ordinal of the statement
\* it is about (0 when it is about the run), the category and the text.
Entry(kind, ordinal, type, text) ==
    [kind |-> kind, ordinal |-> ordinal, type |-> type, text |-> text]

\* An entry about the run.
RunEntry(kind, text) == Entry(kind, 0, None, text)

\* Lines 864-865: the entries of a statement that succeeded.
SuccessEntries(i, type, preview, rows) ==
    <<Entry("ok", i, type, IF rows > 0 THEN "rows returned/affected"
                           ELSE "Executed successfully"),
      Entry("sql", i, type, preview)>>

\* Lines 869-871: the entries of a statement that failed.
FailureEntries(i, type, preview, error_msg) ==
    <<Entry("FAILED", i, type, <<>>),
      Entry("sql", i, type, preview),
      Entry("error", i, type, error_msg)>>

\* Line 827: the note logged when the comment is skipped for a procedure.
SkipNote(i, type, method) ==
    IF method = "SQL comment prefix" /\ IsProcedureType(type)
    THEN <<Entry("query tag comment skipped", i, type, <<>>)>>
    ELSE <<>>

\* Line 810: the statement the loop takes at its i-th iteration.
StatementAt_Reversed(stmts, i) == stmts[Len(stmts) + 1 - i]

StatementAt(stmts, i) == stmts[i]

\* Lines 810 and 895: the loop is left after a failure (break) or after the
\* last of the n statements.
LoopEnds_NoBreak(ok, i, n) == i = n

LoopEnds_AfterFirst(ok, i, n) == TRUE

LoopEnds(ok, i, n) == ~ok \/ i = n

\* Line 906: final_status.
FinalStatus_AlwaysSuccess(f) == "SUCCESS"

FinalStatus(f) == IF f THEN "FAILED" ELSE "SUCCESS"

\* ------------------------------------------------------------------------
\* The deployment: show_deployment_interface and run_deployment
\* ------------------------------------------------------------------------

\* The fragments the deployment's scripts and examples are made of.
F_Select ==
    <<"S", "E", "L", "E", "C", "T", " ", "1", ";">>

F_Drop ==
    <<"d", "r", "o", "p", " ", "t", ";", "\n">>

F_ProcNoDollars ==
    <<"C", "R", "E", "A", "T", "E", " ", "P", "R", "O", "C", "E", "D", "U", "R", "E", " ", "p", ";">>

F_Proc ==
    <<"C", "R", "E", "A", "T", "E", " ", "P", "R", "O", "C", "E", "D", "U", "R", "E", " ", "q", " ", "A", "S", " ", "$", "$", "a", ";", "$", "$", ";">>

F_Comment ==
    <<"-", "-", "c", "\n", ";">>

RunFragments == {F_Select, F_ProcNoDollars, F_Comment}

\* A script of three statements, the second a procedure the validator
\* reports an error for.
Ex_ThreeStatements == F_Select \o F_ProcNoDollars \o F_Drop

\* Two statements in lower and upper case, a line break between them.
Ex_TwoStatements == F_Drop \o F_Select

\* Statements of the categories that go to execute_sql, and of some that go
\* to run_query.
Ex_DefinitionStatements ==
    <<"C", "R", "E", "A", "T", "E", " ", "F", "U", "N", "C", "T", "I", "O", "N", " ", "f", ";", "A", "L", "T", "E", "R", " ", "t", ";", "G", "R", "A", "N", "T", " ", "r", ";", "U", "S", "E", " ", "d", ";", "S", "E", "T", " ", "a", "=", "1", ";", "B", "E", "G", "I", "N", ";", "C", "O", "M", "M", "I", "T">>

Ex_QueryStatements ==
    <<"S", "H", "O", "W", " ", "t", ";", "C", "A", "L", "L", " ", "p", ";", "W", "I", "T", "H", " ", "a">>

\* A procedure followed by two semicolons: in single statement mode one of
\* them stays at the end of the statement.
Ex_ProcTwoSemicolons == F_Proc \o <<";">>

\* A statement longer than the preview, with a line break in it.
Ex_LongStatement ==
    <<"S", "E", "L", "E", "C", "T", "\n", "1", ",", "1", ",", "1", ",", "1", ",", "1", ",", "1", ",", "1", ",", "1", ",", "1", ",", "1", ",", "1", ",", "1", ",", "1", ",", "1", ",", "1", ",", "1", ",", "1", ",", "1", ",", "1", ",", "1", ",", "1", ",", "1", ",", "1", ",", "1", ",", "1", ",", "1", ",", "1", ",", "1", ",", "1", ",", "1", ",", "1", ",", "1", ",", "1", ",", "1", ",", "1", ",", "1", ",", "1", ",", "1", ",", "1", ",", "1", ",", "1", ",", "1", ",", "1", ",", "1", ",", "1", ",", "1", ",", "1", ",", "1", ";">>

\* Two statements that each start with a comment line: a procedure, and a
\* function without delimiters and without a RETURN.
Ex_CommentedProcedures ==
    <<"-", "-", "c", "\n", "C", "R", "E", "A", "T", "E", " ", "P", "R", "O", "C", "E", "D", "U", "R", "E", " ", "q", " ", "A", "S", " ", "$", "$", "a", ";", "$", "$", ";", "-", "-", "d", "\n", "C", "R", "E", "A", "T", "E", " ", "F", "U", "N", "C", "T", "I", "O", "N", " ", "f", " ", "R", "E", "T", "U", "R", "N", "S", " ", "x">>

RunExamples ==
    {Ex_ThreeStatements, Ex_TwoStatements, F_Proc, Ex_DefinitionStatements,
     Ex_QueryStatements, Ex_ProcTwoSemicolons, Ex_LongStatement,
     Ex_CommentedProcedures}

RunScripts == TextsUpTo(RunFragments, MaxRunFragments) \cup RunExamples

\* The schema the operator may have selected.
SchemaName == <<"P", "U", "B", "L", "I", "C">>

\* What the engine answers: to a context switch (an error text, none when
\* it succeeds), to a query-tag method, to a statement.  The rejection of
\* USE as unsupported is an answer of the session inside Snowflake (lines
\* 109-110 and 117); the standalone connection runs the USE statement.
ContextOutcomes(in_snowflake) ==
    IF in_snowflake THEN {<<>>, E_Unsupported, E_NoDatabase, E_NoWarehouse}
    ELSE {<<>>, E_NoDatabase, E_NoWarehouse}

TagOutcomes == {"ok", "error"}

StatementOutcomes == {"ok", "rows", "syntax error", "access error"}

Init ==
    /\ pc = "ui"
    /\ sql_script \in RunScripts
    /\ single_statement_mode \in BOOLEAN
    /\ IN_SNOWFLAKE \in BOOLEAN
    /\ schema \in {None, SchemaName}
    /\ protected_script = <<>>
    /\ placeholders = <<>>
    /\ origin = <<>>
    /\ scan = ScanInit
    /\ statements = <<>>
    /\ stmt = <<>>
    /\ stmt_type = None
    /\ errors = <<>>
    /\ warnings = <<>>
    /\ log_entries = <<>>
    /\ failed = FALSE
    /\ progress = <<>>
    /\ query_tag_method = None
    /\ context_calls = <<>>
    /\ tag_attempts = <<>>
    /\ idx = 0
    /\ sent = <<>>
    /\ deployment_status = None

\* Lines 608-691 and 699-700, 726-743: a run of the page with the Deploy
\* button pressed.  The preview parses and validates the script and shows
\* the errors and warnings; the button is disabled for a blank script;
\* run_deployment starts, logs the connection and reports progress 0 and 5.
Deploy ==
    /\ pc = "ui"
    /\ Strip(sql_script) # <<>>
    /\ \E previewed \in {parse_sql(sql_script, single_statement_mode)} :
           /\ errors' = ValidateErrors(previewed)
           /\ warnings' = ValidateWarnings(previewed)
    /\ deployment_status' = None
    /\ log_entries' = <<RunEntry("connected", <<>>),
                        RunEntry("user and role", CurrentUser \o CurrentRole)>>
    /\ failed' = FALSE
    /\ progress' = <<0, 5>>
    /\ pc' = "set_database"
    /\ UNCHANGED <<sql_script, single_statement_mode, parseVars, statements,
                   stmt, stmt_type, IN_SNOWFLAKE, schema, query_tag_method,
                   context_calls, tag_attempts, idx, sent>>

\* set_database and set_schema (lines 105-142): the result for an answer e
\* of the engine: "set", "note" (returned False with a message) or "raise".
\* In Snowflake an error naming an unsupported statement or USE becomes a
\* note; standalone, every error is raised.
ContextResult_AlwaysRaises(e, in_snowflake) ==
    IF e = <<>> THEN "set" ELSE "raise"

ContextResult(e, in_snowflake) ==
    IF e = <<>> THEN "set"
    ELSE IF /\ in_snowflake
            /\ \/ Contains(e, Txt.UnsupportedStatement)
               \/ Contains(e, Kw.USE_)
    THEN "note"
    ELSE "raise"

\* A context switch asked of the engine: which one, the engine's answer and
\* what set_database or set_schema made of it.
ContextCall(step, answer, result) ==
    [step |-> step, answer |-> answer, result |-> result]

\* Lines 904-920: the end of run_deployment: the status is derived from the
\* failure flag f and stored.
Finish_WithoutStatus(f) ==
    /\ deployment_status' = None
    /\ pc' = "done"

Finish(f) ==
    /\ deployment_status' = FinalStatus(f)
    /\ pc' = "done"

\* Lines 899-902: the handler of an exception raised in the try block; the
\* run goes on to its end.
RunLevelFailure_NotMarked(e) ==
    /\ failed' = FALSE
    /\ log_entries' = Append(log_entries, RunEntry("ERROR", e))
    /\ Finish(FALSE)

RunLevelFailure(e) ==
    /\ failed' = TRUE
    /\ log_entries' = Append(log_entries, RunEntry("ERROR", e))
    /\ Finish(TRUE)

\* Lines 745-753: the database step.
SetDatabase ==
    /\ pc = "set_database"
    /\ \E outcome \in ContextOutcomes(IN_SNOWFLAKE) :
          LET r == ContextResult(outcome, IN_SNOWFLAKE)
          IN  /\ context_calls' = Append(context_calls,
                    ContextCall("database", outcome, r))
              /\ IF r = "raise"
                 THEN /\ RunLevelFailure(outcome)
                      /\ UNCHANGED progress
                 ELSE /\ log_entries' = Append(log_entries,
                           RunEntry(IF r = "set" THEN "database set"
                                    ELSE "database note", <<>>))
                      /\ progress' = Append(progress, 10)
                      /\ pc' = "set_schema"
                      /\ UNCHANGED <<failed, deployment_status>>
    /\ UNCHANGED <<sql_script, single_statement_mode, parseVars, statements,
                   stmt, stmt_type, errors, warnings, IN_SNOWFLAKE, schema,
                   query_tag_method, tag_attempts, idx, sent>>

\* Lines 755-763: the schema step, taken when a schema was selected.
SetSchema ==
    /\ pc = "set_schema"
    /\ IF schema = None
       THEN /\ progress' = Append(progress, 15)
            /\ pc' = "set_query_tag"
            /\ UNCHANGED <<log_entries, failed, deployment_status,
                           context_calls>>
       ELSE \E outcome \in ContextOutcomes(IN_SNOWFLAKE) :
              LET r == ContextResult(outcome, IN_SNOWFLAKE)
              IN  /\ context_calls' = Append(context_calls,
                        ContextCall("schema", outcome, r))
                  /\ IF r = "raise"
                     THEN /\ RunLevelFailure(outcome)
                          /\ UNCHANGED progress
                     ELSE /\ log_entries' = Append(log_entries,
                               RunEntry(IF r = "set" THEN "schema set"
                                        ELSE "schema note", <<>>))
                          /\ progress' = Append(progress, 15)
                          /\ pc' = "set_query_tag"
                          /\ UNCHANGED <<failed, deployment_status>>
    /\ UNCHANGED <<sql_script, single_statement_mode, parseVars, statements,
                   stmt, stmt_type, errors, warnings, IN_SNOWFLAKE, schema,
                   query_tag_method, tag_attempts, idx, sent>>

\* Lines 770-793: the methods attempted, in order, for the engine's answers
\* m1 (session property) and m2 (ALTER SESSION).
TagAttempt(method, outcome) == [method |-> method, outcome |-> outcome]

\* The attempts that go on to ALTER SESSION after the session property was
\* set.
TagAttempts_NotStoppingAtSuccess(in_snowflake, m1, m2) ==
    (IF in_snowflake THEN <<TagAttempt("session property", m1)>> ELSE <<>>)
    \o <<TagAttempt("ALTER SESSION", m2)>>
    \o (IF m2 = "ok" THEN <<>>
        ELSE <<TagAttempt("SQL comment prefix", "ok")>>)

TagAttempts(in_snowflake, m1, m2) ==
    (IF in_snowflake THEN <<TagAttempt("session property", m1)>> ELSE <<>>)
    \o (IF in_snowflake /\ m1 = "ok" THEN <<>>
        ELSE <<TagAttempt("ALTER SESSION", m2)>>
             \o (IF m2 = "ok" THEN <<>>
                 ELSE <<TagAttempt("SQL comment prefix", "ok")>>))

\* The method adopted is the last one attempted.
TagMethod(in_snowflake, m1, m2) ==
    LET a == TagAttempts(in_snowflake, m1, m2) IN a[Len(a)].method

\* Lines 765-800: the query-tag step.
SetQueryTag ==
    /\ pc = "set_query_tag"
    /\ \E m1 \in TagOutcomes, m2 \in TagOutcomes :
          /\ tag_attempts' = TagAttempts(IN_SNOWFLAKE, m1, m2)
          /\ query_tag_method' = TagMethod(IN_SNOWFLAKE, m1, m2)
    /\ log_entries' = Append(log_entries,
          IF query_tag_method' = "SQL comment prefix"
          THEN RunEntry("query tag embedded as comment", QueryTag)
          ELSE RunEntry("query tag set", QueryTag))
    /\ progress' = Append(progress, 20)
    /\ pc' = "parse"
    /\ UNCHANGED <<sql_script, single_statement_mode, parseVars, statements,
                   stmt, stmt_type, errors, warnings, IN_SNOWFLAKE, schema,
                   failed, context_calls, idx, sent, deployment_status>>

\* Lines 802-808 and 897-920: the script is segmented; with no statement
\* the run logs it, reports progress 100 and ends.
ParseScript ==
    /\ pc = "parse"
    /\ statements' = parse_sql(sql_script, single_statement_mode)
    /\ idx' = 0
    /\ IF statements' = <<>>
       THEN /\ log_entries' = Append(log_entries,
                                     RunEntry("No statements to execute", <<>>))
            /\ progress' = Append(progress, 100)
            /\ Finish(failed)
       ELSE /\ pc' = "execute"
            /\ UNCHANGED <<log_entries, progress, deployment_status>>
    /\ UNCHANGED <<sql_script, single_statement_mode, parseVars, stmt,
                   stmt_type, errors, warnings, IN_SNOWFLAKE, schema, failed,
                   query_tag_method, context_calls, tag_attempts, sent>>

StatementError(outcome) ==
    IF outcome = "syntax error" THEN E_SyntaxError ELSE E_AccessError

\* Lines 810-920: one iteration of the loop over the statements, with the
\* engine's answer; after the last statement, or a failure, the loop is
\* left, progress 100 is reported and the run ends.
ExecuteStatement ==
    /\ pc = "execute"
    /\ idx < Len(statements)
    /\ LET i          == idx + 1
           s          == StatementAt(statements, i)
           type       == get_statement_type(s)
           final_stmt == FinalStmt(StmtToExecute(s, type, query_tag_method))
           call       == EngineCall(final_stmt, type, IN_SNOWFLAKE)
           preview    == StmtPreview(s)
       IN  \E outcome \in StatementOutcomes :
             LET ok        == outcome \in {"ok", "rows"}
                 rows      == IF outcome = "rows" /\ ~IsDdl(type) THEN 1 ELSE 0
                 error_msg == ExecuteSqlError(StatementError(outcome), type,
                                              IN_SNOWFLAKE)
                 last      == LoopEnds(ok, i, Len(statements))
             IN  /\ idx' = i
                 /\ stmt' = s
                 /\ stmt_type' = type
                 /\ sent' = sent \o EngineRequests(
                        [ordinal |-> i, stmt |-> s, call |-> call,
                         answer |-> IF ok THEN <<>>
                                    ELSE StatementError(outcome)])
                 /\ log_entries' = log_entries
                       \o SkipNote(i, type, query_tag_method)
                       \o (IF ok THEN SuccessEntries(i, type, preview, rows)
                           ELSE FailureEntries(i, type, preview, error_msg))
                 /\ failed' = ~ok
                 /\ progress' = progress \o <<Pct(i, Len(statements))>>
                                         \o (IF last THEN <<100>> ELSE <<>>)
                 /\ IF last THEN Finish(~ok)
                    ELSE pc' = "execute" /\ UNCHANGED deployment_status
    /\ UNCHANGED <<sql_script, single_statement_mode, parseVars, statements,
                   errors, warnings, IN_SNOWFLAKE, schema, query_tag_method,
                   context_calls, tag_attempts>>

Next ==
    \/ Deploy
    \/ SetDatabase
    \/ SetSchema
    \/ SetQueryTag
    \/ ParseScript
    \/ ExecuteStatement

Spec == Init /\ [][Next]_vars

\* ------------------------------------------------------------------------
\* The progress reports of the loop (lines 810-812 and 897)
\* ------------------------------------------------------------------------

\* The longest list of statements the loop is run on.
MaxStatements == 70

\* The loop entered with a list of n statements, after the reports 0, 5,
\* 10, 15 and 20 of the steps before it.
InitPct ==
    /\ pc = "execute"
    /\ statements \in {[k \in 1..n |-> <<"S">>] : n \in 1..MaxStatements}
    /\ progress = <<0, 5, 10, 15, 20>>
    /\ idx = 0
    /\ sql_script = <<>>
    /\ single_statement_mode = FALSE
    /\ protected_script = <<>>
    /\ placeholders = <<>>
    /\ origin = <<>>
    /\ scan = ScanInit
    /\ stmt = <<>>
    /\ stmt_type = None
    /\ errors = <<>>
    /\ warnings = <<>>
    /\ IN_SNOWFLAKE = FALSE
    /\ schema = None
    /\ log_entries = <<>>
    /\ failed = FALSE
    /\ query_tag_method = None
    /\ context_calls = <<>>
    /\ tag_attempts = <<>>
    /\ sent = <<>>
    /\ deployment_status = None

\* Lines 810-812: the report at the start of an iteration of the loop.
ReportProgress ==
    /\ pc = "execute"
    /\ idx < Len(statements)
    /\ idx' = idx + 1
    /\ progress' = Append(progress, Pct(idx + 1, Len(statements)))
    /\ UNCHANGED <<pc, sql_script, single_statement_mode, parseVars,
                   statements, stmt, stmt_type, errors, warnings,
                   IN_SNOWFLAKE, schema, log_entries, failed,
                   query_tag_method, context_calls, tag_attempts, sent,
                   deployment_status>>

\* Line 897: the report after the last iteration.
ReportCompletion ==
    /\ pc = "execute"
    /\ idx = Len(statements)
    /\ progress' = Append(progress, 100)
    /\ pc' = "done"
    /\ UNCHANGED <<sql_script, single_statement_mode, parseVars, statements,
                   stmt, stmt_type, errors, warnings, IN_SNOWFLAKE, schema,
                   log_entries, failed, query_tag_method, context_calls,
                   tag_attempts, idx, sent, deployment_status>>

NextPct == ReportProgress \/ ReportCompletion

SpecPct == InitPct /\ [][NextPct]_vars

\* ------------------------------------------------------------------------
\* The trailing-semicolon normalization (lines 844-848) on its own
\* ------------------------------------------------------------------------

\* What the texts given to the normalization are made of.
NormTokens ==
    {Txt.DOLLARS, <<"$">>, <<";">>, <<" ">>, <<"\t">>, <<"\n">>, <<"a">>}

\* A text stmt_to_execute, and no result yet.
InitNorm ==
    /\ pc = "rewritten"
    /\ stmt \in TextsUpTo(NormTokens, MaxNormTokens)
    /\ statements = <<>>
    /\ stmt_type = None
    /\ sql_script = <<>>
    /\ single_statement_mode = FALSE
    /\ protected_script = <<>>
    /\ placeholders = <<>>
    /\ origin = <<>>
    /\ scan = ScanInit
    /\ errors = <<>>
    /\ warnings = <<>>
    /\ IN_SNOWFLAKE = FALSE
    /\ schema = None
    /\ log_entries = <<>>
    /\ failed = FALSE
    /\ progress = <<>>
    /\ query_tag_method = None
    /\ context_calls = <<>>
    /\ tag_attempts = <<>>
    /\ idx = 0
    /\ sent = <<>>
    /\ deployment_status = None

\* Lines 844-848 applied to the text, and then once more to the result;
\* statements keeps the results.
Normalize ==
    /\ pc = "rewritten"
    /\ Len(statements) < 2
    /\ statements' = Append(statements,
                            FinalStmt(IF statements = <<>> THEN stmt
                                      ELSE statements[Len(statements)]))
    /\ UNCHANGED <<pc, sql_script, single_statement_mode, parseVars, stmt,
                   stmt_type, errors, warnings, runVars>>

SpecNorm == InitNorm /\ [][Normalize]_vars

\* ------------------------------------------------------------------------
\* Reference definitions of the segmenter's contract (spec 4.1 and 8)
\* ------------------------------------------------------------------------

\* The text between the first and the last non-whitespace character.
RefTrim(s) ==
    LET ns == {k \in 1..Len(s) : s[k] \notin {" ", "\t", "\n"}}
    IN  IF ns = {} THEN <<>>
        ELSE SubSeq(s, CHOOSE a \in ns : \A k \in ns : a <= k,
                       CHOOSE b \in ns : \A k \in ns : b >= k)

\* The fragments of s between the occurrences of the character c.
RECURSIVE RefSplit(_, _)
RefSplit(s, c) ==
    IF \A k \in 1..Len(s) : s[k] # c THEN <<s>>
    ELSE LET p == CHOOSE k \in 1..Len(s) :
                      s[k] = c /\ \A j \in 1..(k - 1) : s[j] # c
         IN  <<SubSeq(s, 1, p - 1)>> \o RefSplit(SubSeq(s, p + 1, Len(s)), c)

\* A fragment is pure commentary when each of its lines, trimmed, is empty
\* or begins with the line-comment marker.
RefCommentOnly(f) ==
    LET lines == RefSplit(f, "\n")
    IN  \A k \in 1..Len(lines) :
            LET l == RefTrim(lines[k])
            IN  l = <<>> \/ (Len(l) >= 2 /\ l[1] = "-" /\ l[2] = "-")

RECURSIVE RefKeep(_)
RefKeep(fs) ==
    IF fs = <<>> THEN <<>>
    ELSE LET f == RefTrim(Head(fs))
         IN  IF f = <<>> \/ RefCommentOnly(f) THEN RefKeep(Tail(fs))
             ELSE <<f>> \o RefKeep(Tail(fs))

\* Split on every `;`, trim, drop the empty and the comment-only fragments.
RefSegment(s) == RefKeep(RefSplit(s, ";"))

\* s[p..e] is a dollar tag: `$`, tag characters, `$`.
RefIsTag(s, p, e) ==
    /\ p < e /\ e <= Len(s)
    /\ s[p] = "$" /\ s[e] = "$"
    /\ \A k \in (p + 1)..(e - 1) : IsTagChar(s[k])

\* The closing positions of a block opening at p: <<e, c>> where s[p..e] is
\* a tag and c is where the same tag first occurs again after e.
RefCloses(s, p) ==
    {b \in (p..Len(s)) \X (p..Len(s)) :
        /\ RefIsTag(s, p, b[1])
        /\ b[2] > b[1]
        /\ OccursAt(s, b[2], SubSeq(s, p, b[1]))
        /\ \A c \in (b[1] + 1)..(b[2] - 1) : ~OccursAt(s, c, SubSeq(s, p, b[1]))}

\* The dollar blocks of s, <<first index, last index>>, leftmost first and
\* not overlapping.
RECURSIVE RefBlocksFrom(_, _)
RefBlocksFrom(s, p) ==
    IF p > Len(s) THEN {}
    ELSE IF RefCloses(s, p) = {} THEN RefBlocksFrom(s, p + 1)
    ELSE LET b    == CHOOSE x \in RefCloses(s, p) : TRUE
             last == b[2] + (b[1] - p)
         IN  {<<p, last>>} \cup RefBlocksFrom(s, last + 1)

RefBlocks(s) == RefBlocksFrom(s, 1)

RefInsideBlock(s, k) == \E b \in RefBlocks(s) : b[1] <= k /\ k <= b[2]

\* The scanner is at a character of the protected script.
Scanning == pc = "scan" /\ scan.i <= Len(protected_script)

\* The step ends a statement: every other branch of the scanner appends to
\* the accumulator.
TerminatorStep == Scanning /\ scan'.i > scan.i /\ scan'.current_stmt = <<>>

Ex_Procedure_Result ==
    <<<<"C", "R", "E", "A", "T", "E", " ", "P", "R", "O", "C", "E", "D", "U", "R", "E", " ", "p", "(", ")", " ", "A", "S", " ", "$", "$", " ", "a", ";", " ", "b", ";", " ", "$", "$">>>>

Ex_StringSemicolon_Result ==
    <<<<"S", "E", "L", "E", "C", "T", " ", "'", ";", "'">>>>

Ex_DoubledQuote_Result ==
    <<<<"S", "E", "L", "E", "C", "T", " ", "'", "i", "t", "'", "'", "s", "'">>>>

Parsed(script) ==
    pc = "parsed" /\ sql_script = script /\ ~single_statement_mode

\* C4: in multi-statement mode a semicolon between an opening dollar tag and
\* the first later occurrence of the same tag never terminates a statement:
\* every step of the scanner that ends a statement does so at a `;` of the
\* script that lies in no dollar block; and the procedure example yields
\* exactly one statement, holding the whole block.
C4_DollarBlockNeverSplit ==
    [][/\ TerminatorStep =>
            /\ sql_script[origin[scan.i]] = ";"
            /\ ~RefInsideBlock(sql_script, origin[scan.i])
       /\ Parsed(Ex_Procedure)' => statements' = Ex_Procedure_Result]_vars

\* The procedure example has been segmented into one statement.
C4_Witness == Parsed(Ex_Procedure) /\ Len(statements) = 1

\* C5: a `;` met while the scanner's in_string flag is true is copied into
\* the current statement and ends nothing; `SELECT ';' ;` yields the one
\* statement `SELECT ';'`.
C5_StringSemicolonCopied ==
    [][/\ (Scanning /\ scan.in_string /\ protected_script[scan.i] = ";") =>
            /\ scan'.current_stmt = scan.current_stmt \o <<";">>
            /\ scan'.statements = scan.statements
            /\ scan'.in_string
            /\ scan'.i = scan.i + 1
       /\ Parsed(Ex_StringSemicolon)' =>
            statements' = Ex_StringSemicolon_Result]_vars

\* The scanner has copied a `;` while inside a string.
C5_Witness ==
    /\ pc = "scan"
    /\ scan.in_string
    /\ scan.i > 1
    /\ protected_script[scan.i - 1] = ";"
    /\ scan.current_stmt = <<"'", ";">>

\* C6: inside a string a doubled quote is consumed as one unit, both
\* characters copied and the flag left true, and only a lone quote clears
\* the flag; `SELECT 'it''s' ;` yields one statement with the literal intact.
C6_DoubledQuotePreserved ==
    [][/\ (Scanning /\ scan.in_string /\ protected_script[scan.i] = "'") =>
            IF /\ scan.i < Len(protected_script)
               /\ protected_script[scan.i + 1] = "'"
            THEN /\ scan'.current_stmt = scan.current_stmt \o <<"'", "'">>
                 /\ scan'.i = scan.i + 2
                 /\ scan'.in_string
                 /\ scan'.statements = scan.statements
            ELSE /\ scan'.current_stmt = scan.current_stmt \o <<"'">>
                 /\ scan'.i = scan.i + 1
                 /\ ~scan'.in_string
                 /\ scan'.statements = scan.statements
       /\ Parsed(Ex_DoubledQuote)' =>
            statements' = Ex_DoubledQuote_Result]_vars

\* The scanner has consumed a doubled quote and is still inside the string.
C6_Witness ==
    /\ pc = "scan"
    /\ scan.in_string
    /\ scan.current_stmt = <<"'", "'", "'">>
    /\ scan.i = 4

\* The precondition of C7: no dollar block and no quote in the script.
PlainScript(s) == RefBlocks(s) = {} /\ \A k \in 1..Len(s) : s[k] # "'"

\* C7: for a script with no dollar-quoted block and no string literal,
\* parse_sql(script, False) is the script split on every `;`, each fragment
\* trimmed, the empty and the comment-only fragments dropped, in order.
C7_PlainScriptIsSplitOnSemicolons ==
    (pc = "parsed" /\ ~single_statement_mode /\ PlainScript(sql_script))
        => statements = RefSegment(sql_script)

\* A plain script with an unmatched tag and a dropped comment-only fragment.
C7_Witness ==
    /\ Parsed(<<"$", "a", "$", ";", "-", "-", ";">>)
    /\ statements = <<(<<"$", "a", "$">>)>>

\* C8: in single-statement mode parse_sql returns [trim(s)] when s has a
\* character that is not whitespace and [] otherwise, whatever s contains.
C8_SingleStatementRoundTrip ==
    (pc = "parsed" /\ single_statement_mode)
        => statements = IF RefTrim(sql_script) = <<>> THEN <<>>
                        ELSE <<RefTrim(sql_script)>>

\* A script with semicolons, a quote and surrounding whitespace came back
\* as one trimmed statement; a blank script came back as no statement.
C8_Witness ==
    /\ pc = "parsed"
    /\ single_statement_mode
    /\ sql_script = <<" ", ";", "'", "\n">>
    /\ statements = <<(<<";", "'">>)>>

\* ------------------------------------------------------------------------
\* The classifier's contract (spec 4.2)
\* ------------------------------------------------------------------------

\* The leading keywords of the table of spec 4.2.
RefKeywords ==
    {Kw.CREATE, Kw.ALTER, Kw.DROP, Kw.TRUNCATE, Kw.INSERT, Kw.UPDATE, Kw.DELETE,
     Kw.MERGE, Kw.SELECT, Kw.CALL, Kw.EXECUTE, Kw.COMMIT, Kw.ROLLBACK, Kw.COPY,
     Kw.PUT, Kw.GET, Kw.GRANT, Kw.REVOKE, Kw.USE_, Kw.SET, Kw.SHOW, Kw.WITH_,
     Kw.DESCRIBE, Kw.DESC, Kw.BEGIN}

\* The fixed set of categories.
RefCategories ==
    {Kw.CREATE \o <<" ">> \o CreateKinds[k] : k \in 1..Len(CreateKinds)}
    \cup {Kw.CREATE, Kw.ALTER, Kw.DROP, Kw.TRUNCATE, Kw.INSERT, Kw.UPDATE,
          Kw.DELETE, Kw.MERGE, Kw.SELECT, Kw.SELECT_CTE, Kw.CALL_PROCEDURE,
          Kw.EXECUTE, Kw.BEGIN \o <<" ">> \o Kw.TRANSACTION, Kw.BEGIN_BLOCK,
          Kw.COMMIT, Kw.ROLLBACK, Kw.COPY, Kw.PUT, Kw.GET, Kw.GRANT, Kw.REVOKE,
          Kw.USE_, Kw.SET, Kw.SHOW, Kw.DESCRIBE, Kw.SQL}

\* No keyword of the table leads the statement, upper-cased and trimmed.
RefNoKeyword(s) ==
    \A kw \in RefKeywords : ~StartsWith(Upper(RefTrim(s)), kw)

\* C9: get_statement_type gives every statement exactly one category of the
\* fixed set, the same one each time it is applied to the same text, and
\* the category SQL when no keyword of the table leads the statement.
C9_ClassificationTotalAndDeterministic ==
    pc \in {"classified", "validated"} =>
        /\ stmt_type \in RefCategories
        /\ stmt_type = get_statement_type(stmt)
        /\ RefNoKeyword(stmt) => stmt_type = Kw.SQL

\* A statement with a keyword that does not lead it was classified SQL.
C9_Witness ==
    /\ pc = "classified"
    /\ stmt = <<"x">> \o <<" ">> \o Kw.CREATE
    /\ stmt_type = Kw.SQL

\* ------------------------------------------------------------------------
\* The orchestrator's contract (spec 4.4 and 8)
\* ------------------------------------------------------------------------

\* The log has an entry of this kind.
Logged(kind) == \E j \in 1..Len(log_entries) : log_entries[j].kind = kind

\* The statements the script segments to.
RefStatements == parse_sql(sql_script, single_statement_mode)

\* C1: once the dispatch of statement k has failed, no statement after k is
\* dispatched or gets a log entry, and the run has ended with status FAILED.
C1_FailFast ==
    \A j \in 1..Len(log_entries) :
        log_entries[j].kind = "FAILED" =>
            LET k == log_entries[j].ordinal
            IN  /\ Len(sent) = k
                /\ \A m \in 1..Len(sent) : sent[m].ordinal <= k
                /\ \A m \in 1..Len(log_entries) : log_entries[m].ordinal <= k
                /\ pc = "done"
                /\ deployment_status = "FAILED"

\* Of three statements the first succeeded and the second failed: the third
\* was never dispatched.
C1_Witness ==
    /\ sql_script = Ex_ThreeStatements
    /\ Len(statements) = 3
    /\ Len(sent) = 2
    /\ log_entries[Len(log_entries) - 2] = Entry("FAILED", 2, stmt_type, <<>>)
    /\ deployment_status = "FAILED"

\* C2: the statements dispatched are, in order, a prefix of the statements
\* parse_sql returns for the script and the mode: none skipped, reordered
\* or duplicated.
C2_ExecutionOrderIsSegmentationOrder ==
    sent # <<>> =>
        LET segmented == RefStatements
        IN  /\ Len(sent) <= Len(segmented)
            /\ \A k \in 1..Len(sent) :
                  /\ sent[k].ordinal = k
                  /\ sent[k].stmt = segmented[k]

\* Two different statements were dispatched in the order of the script.
C2_Witness ==
    /\ sql_script = Ex_TwoStatements
    /\ ~single_statement_mode
    /\ Len(sent) = 2
    /\ sent[1].stmt = <<"d", "r", "o", "p", " ", "t">>
    /\ sent[2].stmt = <<"S", "E", "L", "E", "C", "T", " ", "1">>
    /\ pc = "done"

\* C3: the run ends with status SUCCESS exactly when every statement of the
\* script was dispatched, none failed and no run-level exception occurred,
\* and with FAILED otherwise; a run of a script with no statement that gets
\* to the segmentation ends with SUCCESS and logs that there was nothing to
\* execute.
C3_FinalStatus ==
    pc = "done" =>
        LET segmented == RefStatements
        IN  /\ deployment_status \in {"SUCCESS", "FAILED"}
            /\ deployment_status = "SUCCESS" <=>
                  /\ Len(sent) = Len(segmented)
                  /\ ~Logged("FAILED")
                  /\ ~Logged("ERROR")
            /\ (segmented = <<>> /\ ~Logged("ERROR")) =>
                  /\ deployment_status = "SUCCESS"
                  /\ Logged("No statements to execute")

\* A script of one comment ended with SUCCESS and nothing dispatched.
C3_Witness ==
    /\ pc = "done"
    /\ sql_script = F_Comment
    /\ ~single_statement_mode
    /\ sent = <<>>
    /\ deployment_status = "SUCCESS"
    /\ Logged("No statements to execute")

\* The validator reports an error for a statement of the script.
RefHasError ==
    LET segmented == RefStatements
    IN  \E k \in 1..Len(segmented) : StatementErrors(segmented[k]) # <<>>

\* C10: the validator's errors are advisory: when the engine accepts every
\* statement, each statement of the script is dispatched, in order, and the
\* run ends with SUCCESS although the error list is not empty; a procedure
\* with no `$$` gets an error and is dispatched all the same.
C10_ValidatorIsAdvisory ==
    /\ pc = "set_database" => (errors # <<>>) = RefHasError
    /\ (pc # "ui" /\ sql_script = F_ProcNoDollars) => errors # <<>>
    /\ (pc = "done" /\ errors # <<>> /\ ~Logged("FAILED") /\ ~Logged("ERROR"))
          => /\ [k \in 1..Len(sent) |-> sent[k].stmt] = RefStatements
             /\ deployment_status = "SUCCESS"

\* The second of three statements has a validator error; all three were
\* dispatched and the run succeeded.
C10_Witness ==
    /\ pc = "done"
    /\ sql_script = Ex_ThreeStatements
    /\ ~single_statement_mode
    /\ Len(statements) = 3
    /\ StatementErrors(statements[2]) # <<>>
    /\ errors # <<>>
    /\ Len(sent) = 3
    /\ sent[2].stmt = statements[2]
    /\ deployment_status = "SUCCESS"

\* ------------------------------------------------------------------------
\* The validator's contract (spec 4.3 and 8)
\* ------------------------------------------------------------------------

\* The number of `$` characters right before position p.
RefDollarRun(s, p) ==
    LET others == {q \in 1..(p - 1) : s[q] # "$"}
    IN  IF others = {} THEN p - 1
        ELSE p - 1 - (CHOOSE q \in others : \A r \in others : r <= q)

\* The occurrences of `$$` counted from the left without overlap: a pair
\* starts at every `$` that an even number of `$` precedes in its run and
\* that another `$` follows.
RefDollarPairs(s) ==
    Cardinality({p \in 1..(Len(s) - 1) :
        /\ s[p] = "$"
        /\ s[p + 1] = "$"
        /\ RefDollarRun(s, p) % 2 = 0})

RefDelimiterKinds ==
    {"missing delimiters", "missing closing delimiter", "odd number of delimiters"}

RefIsDelimiterError(e) == e.kind \in RefDelimiterKinds

RefProcedureCategories ==
    {Kw.CREATE \o <<" ">> \o Kw.PROCEDURE, Kw.CREATE \o <<" ">> \o Kw.FUNCTION}

\* C11: for a statement categorized CREATE PROCEDURE or CREATE FUNCTION the
\* delimiter check gives exactly one delimiter error when the count of `$$`
\* is 0 (missing delimiters), 1 (missing closing delimiter) or odd and
\* greater than 1 (mismatched count), and none when the count is even and
\* at least 2; `CREATE PROCEDURE x() AS body` gets exactly one error, the
\* one of missing delimiters.
C11_DelimiterCheck ==
    pc = "validated" =>
        /\ stmt_type \in RefProcedureCategories =>
            LET n == RefDollarPairs(stmt)
                d == SelectSeq(errors, RefIsDelimiterError)
            IN  /\ n = 0 => Len(d) = 1 /\ d[1].kind = "missing delimiters"
                /\ n = 1 => Len(d) = 1 /\ d[1].kind = "missing closing delimiter"
                /\ (n > 1 /\ n % 2 = 1) =>
                       /\ Len(d) = 1
                       /\ d[1].kind = "odd number of delimiters"
                       /\ d[1].n = n
                /\ (n >= 2 /\ n % 2 = 0) => d = <<>>
        /\ stmt = Ex_NoDelimiters =>
            /\ Len(errors) = 1
            /\ errors[1].kind = "missing delimiters"

\* A function with three `$$` got the one error of a mismatched count.
C11_Witness ==
    /\ pc = "validated"
    /\ stmt_type = Kw.CREATE \o <<" ">> \o Kw.FUNCTION
    /\ RefDollarPairs(stmt) = 3
    /\ Len(errors) = 1
    /\ errors[1].kind = "odd number of delimiters"

\* The positions where a pair `$$` of the left-to-right count starts.
RefPairStarts(s) ==
    {p \in 1..(Len(s) - 1) :
        /\ s[p] = "$"
        /\ s[p + 1] = "$"
        /\ RefDollarRun(s, p) % 2 = 0}

\* `... $$ body $$`: one opening and one closing delimiter.
RefProcedureForm(s) == Cardinality(RefPairStarts(s)) = 2

\* The text between the two delimiters.
RefBody(s) ==
    LET open  == CHOOSE p \in RefPairStarts(s) : \A q \in RefPairStarts(s) : p <= q
        close == CHOOSE p \in RefPairStarts(s) : \A q \in RefPairStarts(s) : p >= q
    IN  SubSeq(s, open + 2, close - 1)

RefWordChars == LowerSet \cup UpperSet \cup Range(DigitChars) \cup {"_"}

\* The word w, in either case, stands at p and no word character touches it.
RefWordAt(s, p, w) ==
    /\ p + Len(w) - 1 <= Len(s)
    /\ \A k \in 1..Len(w) : UpperChar(s[p + k - 1]) = w[k]
    /\ p > 1 => s[p - 1] \notin RefWordChars
    /\ p + Len(w) <= Len(s) => s[p + Len(w)] \notin RefWordChars

RefWordStarts(s, w) == {p \in 1..Len(s) : RefWordAt(s, p, w)}

\* The BEGIN at p opens a transaction: whitespace and then the word
\* TRANSACTION follow it.
RefBeginsTransaction(s, p) ==
    \E q \in (p + Len(Kw.BEGIN) + 1)..Len(s) :
        /\ \A r \in (p + Len(Kw.BEGIN))..(q - 1) : s[r] \in {" ", "\t", "\n"}
        /\ RefWordAt(s, q, Kw.TRANSACTION)

\* As many END as BEGIN that open a block.
RefBalanced(s) ==
    Cardinality({p \in RefWordStarts(s, Kw.BEGIN) : ~RefBeginsTransaction(s, p)})
        = Cardinality(RefWordStarts(s, Kw.END))

\* The places where the text t occurs in s, in either case.
RefOccurrences(s, t) ==
    {p \in 1..(Len(s) - Len(t) + 1) :
        \A k \in 1..Len(t) : UpperChar(s[p + k - 1]) = t[k]}

\* Every occurrence of one of the texts has a COMMIT after it.
RefCommitAfter(s, texts) ==
    \A t \in texts : \A p \in RefOccurrences(s, t) :
        \E q \in RefOccurrences(s, Kw.COMMIT) : q > p

\* The claim as worded: the balance of the body alone, and BEGIN TRANSACTION
\* alone.
C12_ValidBodyHasNoErrors ==
    (/\ pc = "validated"
     /\ stmt_type = Kw.CREATE \o <<" ">> \o Kw.PROCEDURE
     /\ RefProcedureForm(stmt)
     /\ RefBalanced(RefBody(stmt))
     /\ RefCommitAfter(RefBody(stmt), {Txt.BEGIN_TRANSACTION}))
    => errors = <<>>

\* C12: the validator gives no error for a CREATE PROCEDURE statement of
\* the form `... AS $$ body $$` whose whole text, the words before the body
\* included, has as many END as BEGIN that open a block and, if it contains
\* BEGIN TRANSACTION or BEGIN WORK, has a COMMIT after it.
C12_ValidProcedureHasNoErrors ==
    (/\ pc = "validated"
     /\ stmt_type = Kw.CREATE \o <<" ">> \o Kw.PROCEDURE
     /\ RefProcedureForm(stmt)
     /\ RefBalanced(stmt)
     /\ RefCommitAfter(stmt, {Txt.BEGIN_TRANSACTION, Txt.BEGIN_WORK}))
    => errors = <<>>

\* The spec's example, a block with a committed transaction in it, was
\* validated without an error.
C12_Witness ==
    /\ pc = "validated"
    /\ stmt = Ex_ValidProcedure
    /\ RefBalanced(stmt)
    /\ Cardinality(RefWordStarts(stmt, Kw.BEGIN)) = 2
    /\ errors = <<>>

\* ------------------------------------------------------------------------
\* The run's contract: failures, context, query tag, routing (spec 4.4, 8)
\* ------------------------------------------------------------------------

\* The requests the engine answered with an error.
RefFailedRequests == {k \in 1..Len(sent) : sent[k].answer # <<>>}

\* The three entries the log has for a failed request: the FAILED entry and
\* the two after it.
RefFailureAt(k) ==
    CHOOSE j \in 1..Len(log_entries) :
        /\ log_entries[j].kind = "FAILED"
        /\ log_entries[j].ordinal = sent[k].ordinal

\* The first 100 characters of a statement, a space for every line break,
\* and three dots when something was cut off.
RefPreview(s) ==
    [k \in 1..(IF Len(s) < 100 THEN Len(s) ELSE 100) |->
        IF s[k] = "\n" THEN " " ELSE s[k]]
    \o (IF Len(s) > 100 THEN <<".", ".", ".">> ELSE <<>>)

\* The log has, for the failed request k, a FAILED entry followed by an
\* entry with the SQL text sql and an entry with the engine's error text
\* in it, all three of the statement's category.
RefFailureLogged(k, sql) ==
    /\ \E j \in 1..Len(log_entries) :
          /\ log_entries[j].kind = "FAILED"
          /\ log_entries[j].ordinal = sent[k].ordinal
    /\ LET j    == RefFailureAt(k)
           type == get_statement_type(sent[k].stmt)
       IN  /\ j + 2 <= Len(log_entries)
           /\ log_entries[j].type = type
           /\ log_entries[j + 1].kind = "sql"
           /\ log_entries[j + 1].type = type
           /\ log_entries[j + 1].text = sql
           /\ log_entries[j + 2].kind = "error"
           /\ log_entries[j + 2].type = type
           /\ Contains(log_entries[j + 2].text, sent[k].answer)

\* C13, as claimed: when the dispatch of a statement fails, the log records
\* for it the exact SQL text sent to the engine (after the comment prefix
\* and the trailing-semicolon normalization), the category and the full
\* error text.
C13_LogRecordsSqlSent ==
    \A k \in RefFailedRequests : RefFailureLogged(k, sent[k].call.sql)

\* C13: when the dispatch of a statement fails, the log records for it a
\* preview of the statement as segmented (its first 100 characters with
\* line breaks turned into spaces, and an ellipsis when it is longer), not
\* the text sent to the engine, together with the category and the full
\* error text.
C13_LogRecordsPreview ==
    \A k \in RefFailedRequests : RefFailureLogged(k, RefPreview(sent[k].stmt))

\* A statement longer than the preview, with a line break in it, failed
\* under the comment prefix: the text sent is not the text logged.
C13_Witness ==
    /\ pc = "done"
    /\ Len(sent) = 1
    /\ sent[1].answer = E_AccessError
    /\ Len(sent[1].stmt) > PreviewLen
    /\ Contains(sent[1].stmt, <<"\n">>)
    /\ query_tag_method = "SQL comment prefix"
    /\ StartsWith(sent[1].call.sql, Txt.TagOpen)
    /\ log_entries[Len(log_entries) - 1].kind = "sql"
    /\ log_entries[Len(log_entries) - 1].text # sent[1].call.sql
    /\ Len(log_entries[Len(log_entries) - 1].text) = PreviewLen + 3

\* The answer to the context switch c is an error that set_database or
\* set_schema raises: standalone every error, inside Snowflake an error
\* that names neither an unsupported statement nor USE.
RefRaised(c) ==
    /\ context_calls[c].answer # <<>>
    /\ IN_SNOWFLAKE =>
          /\ ~Contains(context_calls[c].answer, Txt.UnsupportedStatement)
          /\ ~Contains(context_calls[c].answer, <<"U", "S", "E">>)

\* C14: an exception raised by set_database or set_schema is caught: it is
\* the last thing the run did, the log ends with an ERROR entry carrying
\* its text, the run is over and FAILED, and no query-tag method was tried,
\* no script segmented and no statement dispatched.
C14_RunLevelFailure ==
    \A c \in 1..Len(context_calls) :
        RefRaised(c) =>
            /\ c = Len(context_calls)
            /\ log_entries[Len(log_entries)].kind = "ERROR"
            /\ log_entries[Len(log_entries)].text = context_calls[c].answer
            /\ pc = "done"
            /\ failed
            /\ deployment_status = "FAILED"
            /\ tag_attempts = <<>>
            /\ statements = <<>>
            /\ sent = <<>>

\* The database was set and the schema switch raised an error: the run is
\* over, FAILED, with nothing dispatched.
C14_Witness ==
    /\ Len(context_calls) = 2
    /\ context_calls[1].answer = <<>>
    /\ context_calls[2].step = "schema"
    /\ context_calls[2].answer = E_NoDatabase
    /\ pc = "done"
    /\ deployment_status = "FAILED"
    /\ sent = <<>>

\* The engine rejected the context switch c as unsupported.
RefUnsupported(c) ==
    Contains(context_calls[c].answer,
             <<"U", "n", "s", "u", "p", "p", "o", "r", "t", "e", "d", " ",
               "s", "t", "a", "t", "e", "m", "e", "n", "t">>)

\* What the log calls the note about a context switch.
RefNoteKind(step) ==
    IF step = "database" THEN "database note" ELSE "schema note"

\* No context switch raised an error.
RefContextSettled == \A c \in 1..Len(context_calls) : ~RefRaised(c)

RefRank(method) ==
    CASE method = "session property"   -> 1
      [] method = "ALTER SESSION"      -> 2
      [] method = "SQL comment prefix" -> 3

\* The methods that were attempted and succeeded.
RefActiveMethods ==
    {tag_attempts[k].method : k \in {n \in 1..Len(tag_attempts) :
                                        tag_attempts[n].outcome = "ok"}}

\* C16: the query-tag methods are attempted in the order session property
\* (only with a session handle, inside Snowflake), ALTER SESSION, SQL
\* comment prefix, none skipped; every attempt before the last raised an
\* error and the last succeeded, so none follows a success; and from the
\* segmentation on exactly one method is active, the one the run uses.
C16_QueryTagMethodsInOrder ==
    /\ \A k \in 1..Len(tag_attempts) :
          /\ RefRank(tag_attempts[k].method)
                = k + (IF IN_SNOWFLAKE THEN 0 ELSE 1)
          /\ tag_attempts[k].outcome = (IF k < Len(tag_attempts) THEN "error"
                                        ELSE "ok")
    /\ pc \in {"ui", "set_database", "set_schema", "set_query_tag"} =>
          tag_attempts = <<>> /\ query_tag_method = None
    /\ pc \in {"parse", "execute"} =>
          /\ tag_attempts # <<>>
          /\ RefActiveMethods = {query_tag_method}

\* Inside Snowflake the session property and ALTER SESSION raised an error
\* and the run dispatches under the comment prefix.
C16_Witness ==
    /\ IN_SNOWFLAKE
    /\ pc = "execute"
    /\ Len(tag_attempts) = 3
    /\ tag_attempts[1] = TagAttempt("session property", "error")
    /\ tag_attempts[2] = TagAttempt("ALTER SESSION", "error")
    /\ query_tag_method = "SQL comment prefix"
    /\ Len(sent) = 1

\* Where the first comment of a text ends, line break included; 0 when the
\* text has no comment followed by a line break.
RefBlockEnd(sql) ==
    LET ends == {p \in 3..Len(sql) :
                    SubSeq(sql, p - 2, p) = <<"*", "/", "\n">>}
    IN  IF ends = {} THEN 0
        ELSE CHOOSE p \in ends : \A q \in ends : p <= q

\* The text starts with a comment block that carries the tag, the user, the
\* role and the timestamp.
RefPrefixed(sql) ==
    LET block == SubSeq(sql, 1, RefBlockEnd(sql))
    IN  /\ RefBlockEnd(sql) > 0
        /\ SubSeq(block, 1, 2) = <<"/", "*">>
        /\ Contains(block, QueryTag)
        /\ Contains(block, CurrentUser)
        /\ Contains(block, CurrentRole)
        /\ Contains(block, Timestamp)

\* The text is the statement s, or s without semicolons and whitespace at
\* its end.
RefSameButTail(text, s) ==
    /\ Len(text) <= Len(s)
    /\ text = SubSeq(s, 1, Len(text))
    /\ \A k \in (Len(text) + 1)..Len(s) : s[k] \in {";", " ", "\t", "\n"}

\* C17: the text sent to the engine starts with the comment block of tag,
\* user, role and timestamp if and only if the method adopted is the SQL
\* comment prefix and the category is neither CREATE PROCEDURE nor CREATE
\* FUNCTION; what follows the block, and the whole text when there is no
\* block, is the statement as segmented (up to the normalization of its
\* end).
C17_PrefixOnlyUnderMethodThree ==
    \A k \in 1..Len(sent) :
        LET sql      == sent[k].call.sql
            type     == get_statement_type(sent[k].stmt)
            prefixed == RefPrefixed(sql)
        IN  /\ prefixed <=> /\ query_tag_method = "SQL comment prefix"
                            /\ type \notin RefProcedureCategories
            /\ RefSameButTail(
                   SubSeq(sql, (IF prefixed THEN RefBlockEnd(sql) ELSE 0) + 1,
                          Len(sql)),
                   sent[k].stmt)

\* Under the comment prefix a SELECT was sent with the block before it and
\* the procedure after it was sent as it is.
C17_Witness ==
    /\ sql_script = Ex_ThreeStatements
    /\ query_tag_method = "SQL comment prefix"
    /\ Len(sent) = 2
    /\ RefPrefixed(sent[1].call.sql)
    /\ sent[2].stmt = SubSeq(F_ProcNoDollars, 1, Len(F_ProcNoDollars) - 1)
    /\ sent[2].call.sql = sent[2].stmt

\* The words a category starts with when its statement goes to the
\* definition-execution primitive (spec 4.4).
RefDefinitionWords ==
    {<<"C", "R", "E", "A", "T", "E">>, <<"A", "L", "T", "E", "R">>,
     <<"D", "R", "O", "P">>, <<"T", "R", "U", "N", "C", "A", "T", "E">>,
     <<"G", "R", "A", "N", "T">>, <<"R", "E", "V", "O", "K", "E">>,
     <<"B", "E", "G", "I", "N">>, <<"C", "O", "M", "M", "I", "T">>,
     <<"R", "O", "L", "L", "B", "A", "C", "K">>, <<"U", "S", "E">>,
     <<"S", "E", "T">>}

RefIsDefinition(type) ==
    \E w \in RefDefinitionWords :
        Len(w) <= Len(type) /\ SubSeq(type, 1, Len(w)) = w

\* C18: a statement is sent through execute_sql if and only if its category
\* starts with one of CREATE, ALTER, DROP, TRUNCATE, GRANT, REVOKE, BEGIN,
\* COMMIT, ROLLBACK, USE, SET, and through run_query otherwise; the
\* procedure handling is asked for exactly when the category is CREATE
\* PROCEDURE or CREATE FUNCTION.
C18_DispatchRouting ==
    \A k \in 1..Len(sent) :
        LET type == get_statement_type(sent[k].stmt)
            call == sent[k].call
        IN  /\ call.primitive =
                  (IF RefIsDefinition(type) THEN "execute_sql" ELSE "run_query")
            /\ call.is_procedure <=> type \in RefProcedureCategories

\* A function, an ALTER, a GRANT, a USE, a SET, a BEGIN and a COMMIT all
\* went through execute_sql, the function alone with the procedure
\* handling.
C18_Witness ==
    /\ sql_script = Ex_DefinitionStatements
    /\ Len(sent) = 7
    /\ \A k \in 1..7 : sent[k].call.primitive = "execute_sql"
    /\ get_statement_type(sent[1].stmt) = Kw.CREATE \o <<" ">> \o Kw.FUNCTION
    /\ {k \in 1..7 : sent[k].call.is_procedure} = {1}
    /\ get_statement_type(sent[4].stmt) = <<"U", "S", "E">>

\* The engine's error is parse-related.
RefParseRelated(e) ==
    \/ Contains(Lower(e), <<"p", "a", "r", "s", "e", " ", "e", "r", "r", "o", "r">>)
    \/ Contains(Lower(e), <<"u", "n", "e", "x", "p", "e", "c", "t", "e", "d">>)

\* The failed requests for a procedure or a function that the engine
\* answered with a parse-related error.
RefProcedureParseFailures ==
    {k \in RefFailedRequests :
        /\ get_statement_type(sent[k].stmt) \in RefProcedureCategories
        /\ RefParseRelated(sent[k].answer)}

\* The error text the log has for the failed request k.
RefErrorLogged(k) == log_entries[RefFailureAt(k) + 2].text

\* The text reports the error e with a hint after it.
RefHinted(text, e) ==
    /\ Contains(text, e)
    /\ Len(text) > Len(e)
    /\ Contains(text, <<"N", "o", "t", "e", ":">>)
    /\ Contains(text, <<"$", "$">>)

\* Every statement is sent at most once, in its turn, through one
\* primitive, and a failed request is the last one.
RefSentOnce ==
    /\ \A k \in 1..Len(sent) :
          /\ sent[k].ordinal = k
          /\ k <= Len(statements)
          /\ sent[k].stmt = statements[k]
          /\ sent[k].call.primitive \in {"execute_sql", "run_query"}
    /\ \A k \in RefFailedRequests : k = Len(sent)

C20_ProgressReaches100 ==
    pc = "done" => /\ progress # <<>>
                   /\ progress[Len(progress)] = 100

\* ------------------------------------------------------------------------
\* Progress, phases, normalization, blocks, categories (spec 4.1 to 4.4)
\* ------------------------------------------------------------------------

\* C21: the progress reports never decrease and lie within 0..100; they
\* start with 0, 5, 10, 15, 20; and the report for the i-th of n statements
\* is 20 + floor(70*i/n), a value from 20 to 90.
C21_ProgressValues ==
    /\ \A k \in 1..Len(progress) : progress[k] \in 0..100
    /\ \A k \in 1..(Len(progress) - 1) : progress[k] <= progress[k + 1]
    /\ \A k \in 1..5 : k <= Len(progress) => progress[k] = 5 * (k - 1)
    /\ \A i \in 1..idx :
          /\ progress[5 + i] = 20 + ((70 * i) \div Len(statements))
          /\ progress[5 + i] \in 20..90

\* The place of a position of the run in the order of the phases:
\* Initializing, SettingDatabase, SettingSchema, SettingQueryTag, Executing
\* (the segmentation, then the loop), Completed.
RefPhaseRank(p) ==
    CASE p = "ui"            -> 0
      [] p = "set_database"  -> 1
      [] p = "set_schema"    -> 2
      [] p = "set_query_tag" -> 3
      [] p = "parse"         -> 4
      [] p = "execute"       -> 5
      [] p = "done"          -> 6

\* What has happened so far respects the order of the phases.
RefPhasesRespected ==
    /\ Len(context_calls) <= 2
    /\ Len(context_calls) >= 1 => context_calls[1].step = "database"
    /\ Len(context_calls) = 2 =>
          /\ context_calls[2].step = "schema"
          /\ schema # None
          /\ context_calls[1].result # "raise"
    /\ (\/ pc \in {"set_query_tag", "parse", "execute"}
        \/ tag_attempts # <<>>) =>
          /\ Len(context_calls) = (IF schema = None THEN 1 ELSE 2)
          /\ \A c \in 1..Len(context_calls) : context_calls[c].result # "raise"
    /\ (pc = "execute" \/ statements # <<>> \/ sent # <<>>) =>
          /\ tag_attempts # <<>>
          /\ query_tag_method # None
    /\ sent # <<>> => statements # <<>>
    /\ IF pc = "done" THEN deployment_status \in {"SUCCESS", "FAILED"}
       ELSE deployment_status = None

\* C22: the phases come in the order Initializing, SettingDatabase,
\* SettingSchema (a schema switch is made if and only if a schema was
\* selected), SettingQueryTag, Executing, Completed: a step never goes back
\* to an earlier phase, nothing is segmented or dispatched before the
\* database, schema and query-tag steps have finished, and a run ends
\* Completed, with status SUCCESS or FAILED: until then a step can be
\* taken (a setup step is enabled, the segmentation has no condition, the
\* loop has a statement left), and every step moves to a later phase or to
\* the next statement of the loop.
C22_PhasesInOrder ==
    /\ []RefPhasesRespected
    /\ [](pc \in {"set_database", "set_schema", "set_query_tag"} =>
             ENABLED (SetDatabase \/ SetSchema \/ SetQueryTag))
    /\ [](pc = "execute" => idx < Len(statements))
    /\ [][\/ RefPhaseRank(pc') > RefPhaseRank(pc)
          \/ /\ pc = "execute" /\ pc' = "execute"
             /\ idx' = idx + 1 /\ idx' < Len(statements)]_vars

\* A run with a schema selected went through both context switches and the
\* query-tag step, dispatched two statements and ended SUCCESS.
C22_Witness ==
    /\ schema # None
    /\ Len(context_calls) = 2
    /\ tag_attempts # <<>>
    /\ Len(statements) = 2
    /\ Len(sent) = 2
    /\ progress = <<0, 5, 10, 15, 20, 55, 90, 100>>
    /\ pc = "done"
    /\ deployment_status = "SUCCESS"

\* The text without the characters of cs at its end.
RefWithoutTail(s, cs) ==
    LET keep == {k \in 0..Len(s) : k = 0 \/ s[k] \notin cs}
    IN  SubSeq(s, 1, CHOOSE k \in keep : \A j \in keep : j <= k)

\* The text ends with `$$`.
RefEndsInDollars(s) ==
    Len(s) >= 2 /\ s[Len(s) - 1] = "$" /\ s[Len(s)] = "$"

\* The text is one the normalization strips: trimmed of trailing
\* whitespace it ends with a semicolon and contains `$$`, and without its
\* trailing semicolons, spaces, tabs and newlines it ends with `$$`.
RefStripsTail(s) ==
    LET t == RefWithoutTail(s, {" ", "\t", "\n"})
    IN  /\ t # <<>>
        /\ t[Len(t)] = ";"
        /\ \E p \in 1..(Len(t) - 1) : t[p] = "$" /\ t[p + 1] = "$"
        /\ RefEndsInDollars(RefWithoutTail(s, {";", " ", "\t", "\n"}))

\* C23: a text that, trimmed of trailing whitespace, ends with `;`,
\* contains `$$` and without its trailing semicolons, spaces, tabs and
\* newlines ends with `$$` is dispatched as that stripped text; any other
\* text is dispatched with its trailing whitespace trimmed and no semicolon
\* removed; and normalizing the result again changes nothing.
C23_TrailingSemicolonNormalization ==
    /\ Len(statements) >= 1 =>
          statements[1] =
             (IF RefStripsTail(stmt)
              THEN RefWithoutTail(stmt, {";", " ", "\t", "\n"})
              ELSE RefWithoutTail(stmt, {" ", "\t", "\n"}))
    /\ (Len(statements) >= 1 /\ RefStripsTail(stmt)) =>
          RefEndsInDollars(statements[1])
    /\ Len(statements) = 2 => statements[2] = statements[1]

\* `a$$;` with a line break after it was normalized to `a$$`, and again to
\* the same text.
C23_Witness ==
    /\ pc = "rewritten"
    /\ stmt = <<"a", "$", "$", ";", "\n">>
    /\ RefStripsTail(stmt)
    /\ statements = <<SubSeq(stmt, 1, 3), SubSeq(stmt, 1, 3)>>

\* Phase A has run on the script.
RefProtected == ~single_statement_mode /\ pc \in {"scan", "parsed"}

\* Where the blocks replaced in phase A start in the script: a placeholder's
\* characters all stand for the start of its block.
RefBlockStarts ==
    {origin[j] : j \in {i \in 1..(Len(origin) - 1) : origin[i] = origin[i + 1]}}

\* The start in the script of the k-th block replaced.
RefBlockStart(k) ==
    CHOOSE p \in RefBlockStarts :
        Cardinality({q \in RefBlockStarts : q < p}) = k - 1

\* The index p of the script lies within a block replaced in phase A.
RefReplaced(p) ==
    \E k \in 1..Len(placeholders) :
        /\ RefBlockStart(k) <= p
        /\ p < RefBlockStart(k) + Len(placeholders[k][2])

\* The tags of the script that start outside every block and do not occur
\* again after their end, as <<first index, last index>>.
RefUnmatchedTags ==
    {t \in (1..Len(sql_script)) \X (1..Len(sql_script)) :
        /\ RefIsTag(sql_script, t[1], t[2])
        /\ ~RefReplaced(t[1])
        /\ \A c \in (t[2] + 1)..Len(sql_script) :
              ~OccursAt(sql_script, c, SubSeq(sql_script, t[1], t[2]))}

\* Every block replaced is a piece of the script that starts with a tag and
\* ends with the first later occurrence of that tag: the tag does not
\* occur in between, and whatever else lies in between, other tags
\* included, is part of the block.  Every tag outside the blocks that does
\* occur again starts a block.
RefBlocksAreShortest ==
    /\ Cardinality(RefBlockStarts) = Len(placeholders)
    /\ \A k \in 1..Len(placeholders) :
          LET o == placeholders[k][2]
              p == RefBlockStart(k)
          IN  /\ o = SubSeq(sql_script, p, p + Len(o) - 1)
              /\ \A j \in 1..(k - 1) :
                    RefBlockStart(j) + Len(placeholders[j][2]) <= p
              /\ \E e \in 2..Len(o) :
                    /\ RefIsTag(o, 1, e)
                    /\ Len(o) >= 2 * e
                    /\ OccursAt(o, Len(o) - e + 1, SubSeq(o, 1, e))
                    /\ \A c \in (e + 1)..(Len(o) - e) :
                          ~OccursAt(o, c, SubSeq(o, 1, e))
    /\ \A p \in 1..Len(sql_script) :
          RefCloses(sql_script, p) # {} => RefReplaced(p)

\* The characters of the script outside the blocks are in the protected
\* script as they are.
RefRestIsCopied ==
    \A p \in 1..Len(sql_script) :
        ~RefReplaced(p) =>
            \E j \in 1..Len(protected_script) :
                origin[j] = p /\ protected_script[j] = sql_script[p]

\* C24, as claimed: a block starts at a tag and ends at the first later
\* occurrence of the same tag, a different tag inside it neither closes it
\* nor opens a block, and a tag that does not occur again is not replaced:
\* all its characters are outside the blocks and go to phase B as they are.
C24_UnmatchedTagUntouched ==
    RefProtected =>
        /\ RefBlocksAreShortest
        /\ RefRestIsCopied
        /\ \A t \in RefUnmatchedTags :
              \A p \in t[1]..t[2] : ~RefReplaced(p)

\* C24: a block starts at a tag and ends at the first later occurrence of
\* the same tag, a different tag inside it neither closes it nor opens a
\* block, and a tag that does not occur again opens no block: its
\* characters go to phase B as they are, except that its closing `$` can
\* be the opening `$` of another tag and be replaced with that tag's block.
C24_NonGreedyNonNested ==
    RefProtected =>
        /\ RefBlocksAreShortest
        /\ RefRestIsCopied
        /\ \A t \in RefUnmatchedTags :
              /\ t[1] \notin RefBlockStarts
              /\ \A p \in t[1]..(t[2] - 1) : ~RefReplaced(p)
              /\ RefReplaced(t[2]) => t[2] \in RefBlockStarts

\* The block tagged `$a$` was replaced as a whole, the `$$` and the
\* semicolons inside it included, and the script gave two statements.
C24_Witness ==
    /\ sql_script = Ex_NestedTag
    /\ pc = "parsed"
    /\ ~single_statement_mode
    /\ Len(placeholders) = 1
    /\ placeholders[1][2] = SubSeq(Ex_NestedTag, 1, 14)
    /\ RefReplaced(7)
    /\ 7 \notin RefBlockStarts
    /\ Len(statements) = 2

\* A list in the opposite order.
RefReversed(seq) == [k \in 1..Len(seq) |-> seq[Len(seq) + 1 - k]]

\* C25: the placeholders of phase A are pairwise distinct; restoring a
\* candidate statement gives the same text whether the placeholders are
\* replaced in the order of the blocks or in the opposite order; and every
\* statement returned contains none of the placeholders and is a piece of
\* the script, character for character.
C25_RestorationExact ==
    /\ \A j, k \in 1..Len(placeholders) :
          j # k => placeholders[j][1] # placeholders[k][1]
    /\ pc = "scan" =>
          RestoreDollarBlocks(Strip(scan.current_stmt), placeholders)
             = RestoreDollarBlocks(Strip(scan.current_stmt),
                                   RefReversed(placeholders))
    /\ (pc = "parsed" /\ ~single_statement_mode) =>
          \A n \in 1..Len(statements) :
              /\ \A k \in 1..Len(placeholders) :
                    ~Contains(statements[n], placeholders[k][1])
              /\ \E p \in 1..Len(sql_script) :
                    OccursAt(sql_script, p, statements[n])

\* The first word of a text: its longest prefix of word characters.
RefFirstWord(t) ==
    LET stops == {k \in 1..Len(t) : t[k] \notin RefWordChars}
    IN  IF stops = {} THEN t
        ELSE SubSeq(t, 1, (CHOOSE k \in stops : \A j \in stops : k <= j) - 1)

\* type is the category the table gives the keyword kw for the upper-cased
\* text t; the kind of a CREATE is left open here.
RefIsCategoryOf(type, kw, t) ==
    IF kw = Kw.CREATE THEN StartsWith(type, Kw.CREATE)
    ELSE IF kw = Kw.WITH_ THEN type = Kw.SELECT_CTE
    ELSE IF kw = Kw.CALL THEN type = Kw.CALL_PROCEDURE
    ELSE IF kw \in {Kw.DESCRIBE, Kw.DESC} THEN type = Kw.DESCRIBE
    ELSE IF kw = Kw.BEGIN
         THEN type = (IF \E p \in 1..Len(t) : OccursAt(t, p, Kw.TRANSACTION)
                      THEN Kw.BEGIN \o <<" ">> \o Kw.TRANSACTION
                      ELSE Kw.BEGIN_BLOCK)
    ELSE type = kw

\* C26 as stated: the first word of the trimmed, upper-cased statement
\* decides: a keyword of the table gives its category, any other first
\* word gives SQL.
C26_FirstWordDecides ==
    pc \in {"classified", "validated"} =>
        LET t == Upper(RefTrim(stmt))
            w == RefFirstWord(t)
        IN  IF w \in RefKeywords THEN RefIsCategoryOf(stmt_type, w, t)
            ELSE stmt_type = Kw.SQL

\* C26, amended: the keyword the trimmed, upper-cased statement starts with
\* decides, whether or not a word ends where the keyword ends: the
\* statement gets the category of every keyword of the table it starts
\* with (WITH gives SELECT (CTE), DESCRIBE or DESC gives DESCRIBE, BEGIN
\* gives BEGIN TRANSACTION if the text contains TRANSACTION anywhere and
\* BEGIN BLOCK otherwise), and SQL when it starts with none.
C26_LeadingPrefixDecides ==
    pc \in {"classified", "validated"} =>
        LET t == Upper(RefTrim(stmt))
        IN  /\ \A kw \in RefKeywords :
                   StartsWith(t, kw) => RefIsCategoryOf(stmt_type, kw, t)
            /\ RefNoKeyword(stmt) => stmt_type = Kw.SQL

\* A statement whose first word only starts with a keyword was classified
\* by that keyword.
C26_Witness ==
    /\ pc = "classified"
    /\ stmt = <<"s", "e", "t">> \o <<"x">>
    /\ RefFirstWord(Upper(RefTrim(stmt))) \notin RefKeywords
    /\ stmt_type = Kw.SET

\* The kinds of object a CREATE is sub-classified by, in order of precedence.
RefKindsByPrecedence ==
    <<Kw.PROCEDURE, Kw.FUNCTION, Kw.TABLE, Kw.VIEW, Kw.SCHEMA, Kw.DATABASE,
      Kw.TASK, Kw.STREAM, Kw.STAGE, Kw.PIPE>>

\* The kinds that occur anywhere in the text t, as indices of precedence.
RefKindsPresent(t) ==
    {k \in 1..Len(RefKindsByPrecedence) :
        \E p \in 1..Len(t) : OccursAt(t, p, RefKindsByPrecedence[k])}

\* C27: a statement that starts with CREATE gets the category CREATE K for
\* the K of highest precedence (PROCEDURE, FUNCTION, TABLE, VIEW, SCHEMA,
\* DATABASE, TASK, STREAM, STAGE, PIPE) that occurs anywhere in its
\* upper-cased text, and plain CREATE when no kind occurs.
C27_CreatePrecedence ==
    (pc \in {"classified", "validated"}
         /\ StartsWith(Upper(RefTrim(stmt)), Kw.CREATE)) =>
        LET present == RefKindsPresent(Upper(RefTrim(stmt)))
        IN  /\ present = {} => stmt_type = Kw.CREATE
            /\ \A k \in present :
                   (\A j \in present : k <= j) =>
                       stmt_type = Kw.CREATE \o <<" ">> \o RefKindsByPrecedence[k]

\* A CREATE TABLE whose text names PROCEDURE after TABLE was classified
\* CREATE PROCEDURE.
C27_Witness ==
    /\ pc = "classified"
    /\ stmt = Kw.CREATE \o <<" ">> \o Kw.TABLE \o <<" ">> \o Kw.PROCEDURE
    /\ stmt_type = Kw.CREATE \o <<" ">> \o Kw.PROCEDURE

RefIsMissingEnd(e) == e.kind = "missing END"

\* The BEGIN of the text that open a block: the whole words BEGIN less those
\* that whitespace and the whole word TRANSACTION follow.
RefProceduralBegins(s) ==
    {p \in RefWordStarts(s, Kw.BEGIN) : ~RefBeginsTransaction(s, p)}

\* C28: for a statement categorized CREATE PROCEDURE or CREATE FUNCTION the
\* validator reports the missing-END error if and only if the whole-word
\* BEGIN of the upper-cased text, less the whole-word BEGIN TRANSACTION,
\* are more than its whole-word END.
C28_BeginEndBalance ==
    (pc = "validated" /\ stmt_type \in RefProcedureCategories) =>
        ((\E k \in 1..Len(errors) : RefIsMissingEnd(errors[k]))
            <=> Cardinality(RefProceduralBegins(stmt))
                    > Cardinality(RefWordStarts(stmt, Kw.END)))

\* A procedure with a BEGIN TRANSACTION and one more BEGIN, and no END, was
\* reported for one block without its END.
C28_Witness ==
    /\ pc = "validated"
    /\ stmt = ProcHeader \o Kw.BEGIN \o <<" ">> \o Kw.TRANSACTION \o <<";">>
                  \o Kw.BEGIN \o <<" ">>
    /\ \E k \in 1..Len(errors) :
           RefIsMissingEnd(errors[k]) /\ errors[k].n = 1 /\ errors[k].m = 0

\* The statement begins with a `--` comment line; a statement parse_sql
\* returns is trimmed and has a line that is no comment, so SQL follows.
RefCommentLed(s) ==
    /\ Len(s) >= 2
    /\ s[1] = "-"
    /\ s[2] = "-"
    /\ \E p \in 3..(Len(s) - 1) : s[p] = "\n"

\* The kinds of error and warning of the rules for procedures and functions.
RefProcedureRuleKinds ==
    RefDelimiterKinds
    \cup {"missing END", "transaction will not complete", "no RETURN",
          "content after closing delimiter"}

\* C29: a statement of parse_sql's result that begins with a `--` comment
\* line is classified SQL, is sent through run_query without the procedure
\* handling, gets the comment block before it under the SQL comment prefix,
\* and gets none of the errors and warnings of the rules for procedures and
\* functions.
C29_CommentLedStatementIsPlainSql ==
    /\ (pc \in {"execute", "done"} /\ idx >= 1 /\ RefCommentLed(stmt)) =>
           /\ stmt_type = Kw.SQL
           /\ \E k \in 1..Len(sent) : sent[k].ordinal = idx
           /\ \A k \in 1..Len(sent) :
                  sent[k].ordinal = idx =>
                      /\ sent[k].stmt = stmt
                      /\ sent[k].call.primitive = "run_query"
                      /\ ~sent[k].call.is_procedure
                      /\ query_tag_method = "SQL comment prefix"
                             => RefPrefixed(sent[k].call.sql)
    /\ (/\ pc \in {"execute", "done"}
        /\ statements # <<>>
        /\ \A k \in 1..Len(statements) : RefCommentLed(statements[k])) =>
           /\ \A k \in 1..Len(errors) :
                  errors[k].kind \notin RefProcedureRuleKinds
           /\ \A k \in 1..Len(warnings) :
                  warnings[k].kind \notin RefProcedureRuleKinds

\* The procedure behind a comment line was sent through run_query with the
\* comment block before it, and the validator had nothing to say about it
\* or about the function without delimiters behind the other comment.
C29_Witness ==
    /\ sql_script = Ex_CommentedProcedures
    /\ ~single_statement_mode
    /\ query_tag_method = "SQL comment prefix"
    /\ Len(statements) = 2
    /\ idx = 1
    /\ RefCommentLed(stmt)
    /\ Contains(Upper(stmt), Kw.CREATE \o <<" ">> \o Kw.PROCEDURE)
    /\ Contains(stmt, Txt.DOLLARS)
    /\ stmt_type = Kw.SQL
    /\ sent[1].call.primitive = "run_query"
    /\ RefPrefixed(sent[1].call.sql)
    /\ errors = <<>>
    /\ warnings = <<>>

====
